---- MODULE Spec2Model ----
(***************************************************************************)
(* VeriTrade: the Verilator co-simulation harness                          *)
(* (cpp_testbench/fpga_trading_system_test.cpp), the synchronous pricing   *)
(* bridge (cpp_wrapper/hjb_wrapper.cpp) and the verilated hjb_calculator   *)
(* device (obj_dir/).                                                      *)
(*                                                                         *)
(* Fixed-width machine words wider than TLC's integers are kept as         *)
(* little-endian sequences of 16-bit limbs: a uint32_t / IData is 2 limbs, *)
(* a uint64_t / QData is 4 limbs.  A double is kept as its IEEE-754 bit    *)
(* pattern, which is what the unions of hjb_wrapper.cpp exchange.          *)
(***************************************************************************)
EXTENDS Integers, Sequences, FiniteSets, TLC

\* the null pointer; live objects have addresses 1, 2, ...
NULL == 0

(***************************************************************************)
(* Limb arithmetic                                                         *)
(***************************************************************************)
LimbBase == 2 ^ 16

Limb(x, k) == IF k \in 1..Len(x) THEN x[k] ELSE 0

\* the n-limb pattern of a natural v < 2^31
Limbs(v, n) == [k \in 1..n |-> IF k = 1 THEN v % LimbBase
                               ELSE IF k = 2 THEN (v \div LimbBase) % LimbBase
                               ELSE 0]

ZeroExt(x, n) == [k \in 1..n |-> Limb(x, k)]

Not(x) == [k \in 1..Len(x) |-> (LimbBase - 1) - x[k]]

RECURSIVE CarryInto(_, _, _, _)
CarryInto(a, b, c0, k) ==
    IF k = 1 THEN c0
    ELSE (a[k - 1] + b[k - 1] + CarryInto(a, b, c0, k - 1)) \div LimbBase

AddC(a, b, c0) == [k \in 1..Len(a) |-> (a[k] + b[k] + CarryInto(a, b, c0, k)) % LimbBase]

\* a + b and a - b modulo 2^(16 * Len(a))
Add(a, b) == AddC(a, b, 0)
Sub(a, b) == AddC(a, Not(b), 1)

\* logical shifts inside the width of x
ShiftR(x, s) ==
    LET w == s \div 16
        r == s % 16
    IN [k \in 1..Len(x) |-> (Limb(x, k + w) \div (2 ^ r))
                            + (Limb(x, k + w + 1) % (2 ^ r)) * (2 ^ (16 - r))]

ShiftL(x, s) ==
    LET w == s \div 16
        r == s % 16
    IN [k \in 1..Len(x) |-> (Limb(x, k - w) % (2 ^ (16 - r))) * (2 ^ r)
                            + (Limb(x, k - w - 1) \div (2 ^ (16 - r)))]

RECURSIVE BitOr(_, _)
BitOr(a, b) ==
    IF a = 0 THEN b
    ELSE IF b = 0 THEN a
    ELSE (IF a % 2 = 1 \/ b % 2 = 1 THEN 1 ELSE 0) + 2 * BitOr(a \div 2, b \div 2)

Or(a, b) == [k \in 1..Len(a) |-> BitOr(a[k], b[k])]

RECURSIVE LtFrom(_, _, _)
LtFrom(a, b, k) ==
    IF k = 0 THEN FALSE
    ELSE IF a[k] # b[k] THEN a[k] < b[k]
    ELSE LtFrom(a, b, k - 1)

\* unsigned a < b
Lt(a, b) == LtFrom(a, b, Len(a))

\* the uint32_t pattern of an int32_t (two's complement)
FromInt32(v) == IF v >= 0 THEN Limbs(v, 2) ELSE Not(Limbs((0 - v) - 1, 2))


(***************************************************************************)
(* The verilated pricing device (obj_dir/Vhjb_calculator...)               *)
(***************************************************************************)
Zero32 == Limbs(0, 2)
Zero64 == Limbs(0, 4)
Ones32 == Not(Zero32)
Ones64 == Not(Zero64)

\* VL_SHIFTR_QQI(64,64,32, lhs, rhs) and VL_SHIFTL_QQI(64,64,32, lhs, rhs):
\* 64-bit logical shifts, 0 when the shift count reaches the width
VL_SHIFTR_QQI(lhs, rhs) == IF rhs >= 64 THEN Zero64 ELSE ShiftR(lhs, rhs)
VL_SHIFTL_QQI(lhs, rhs) == IF rhs >= 64 THEN Zero64 ELSE ShiftL(lhs, rhs)

\* The values VL_SCOPED_RAND_RESET_* may leave in the registers of a new
\* instance: zeros (rand reset 0), ones (1) or anything (2).  fill selects
\* the pattern of the wide registers, st and dn the FSM state and the done
\* flag.
RandResetChoices == [fill : {0, 1}, st : 0..7, dn : {0, 1}]

ctor_var_reset(r) ==
    [clk |-> r.fill, rst_n |-> r.fill,
     mid_price |-> IF r.fill = 1 THEN Ones64 ELSE Zero64,
     inventory |-> IF r.fill = 1 THEN Ones32 ELSE Zero32,
     volatility |-> IF r.fill = 1 THEN Ones64 ELSE Zero64,
     calculate_en |-> r.fill,
     optimal_bid |-> IF r.fill = 1 THEN Ones64 ELSE Zero64,
     optimal_ask |-> IF r.fill = 1 THEN Ones64 ELSE Zero64,
     calculation_done |-> r.dn,
     latency_cycles |-> IF r.fill = 1 THEN Ones32 ELSE Zero32,
     reservation_price |-> IF r.fill = 1 THEN Ones64 ELSE Zero64,
     spread |-> IF r.fill = 1 THEN Ones64 ELSE Zero64,
     cycle_counter |-> IF r.fill = 1 THEN Ones32 ELSE Zero32,
     state |-> r.st,
     Vtrigprevexpr_clk |-> r.fill,
     Vtrigprevexpr_rst_n |-> r.fill,
     VactTriggered |-> {},
     VnbaTriggered |-> {},
     Vm_didInit |-> FALSE]

eval_static(d) ==
    [d EXCEPT !.Vtrigprevexpr_clk = d.clk, !.Vtrigprevexpr_rst_n = d.rst_n]

\* The body of ___eval_triggers__act is not among the sources; it is the
\* edge detection of the two triggers that ___dump_triggers__act names,
\* trigger 0 @(posedge clk) and trigger 1 @(negedge rst_n), against the
\* previous values that ___eval_static initialises.
eval_triggers__act(d) ==
    [d EXCEPT !.VactTriggered =
                  (IF d.clk = 1 /\ d.Vtrigprevexpr_clk = 0 THEN {0} ELSE {})
                  \cup (IF d.rst_n = 0 /\ d.Vtrigprevexpr_rst_n = 1 THEN {1} ELSE {}),
              !.Vtrigprevexpr_clk = d.clk,
              !.Vtrigprevexpr_rst_n = d.rst_n]

One32 == Limbs(1, 2)

\* a variant that derives the spread from the volatility port
nba_sequent__TOP__0_usesVolatility(d) ==
    LET s == d.state
        b4 == (s \div 4) % 2 = 1
        b2 == (s \div 2) % 2 = 1
        b1 == s % 2 = 1
        inc == Add(One32, d.cycle_counter)
    IN
    IF d.rst_n = 1 THEN
        IF b4 THEN
            IF b2 THEN [d EXCEPT !.state = 0]
            ELSE IF b1 THEN [d EXCEPT !.state = 0]
            ELSE [d EXCEPT !.calculation_done = 1,
                           !.latency_cycles = d.cycle_counter,
                           !.state = IF d.calculate_en = 0 THEN 0 ELSE d.state]
        ELSE IF b2 THEN
            IF b1 THEN
                [d EXCEPT !.cycle_counter = inc,
                          !.optimal_bid = Sub(d.reservation_price, VL_SHIFTR_QQI(d.spread, 1)),
                          !.optimal_ask = Add(d.reservation_price, VL_SHIFTR_QQI(d.spread, 1)),
                          !.state = 4]
            ELSE
                [d EXCEPT !.cycle_counter = inc,
                          !.spread = VL_SHIFTR_QQI(d.volatility, 7),
                          !.state = 3]
        ELSE IF b1 THEN
            [d EXCEPT !.cycle_counter = inc,
                      !.reservation_price =
                          Sub(d.mid_price, VL_SHIFTL_QQI(ZeroExt(d.inventory, 4), 10)),
                      !.state = 2]
        ELSE
            [d EXCEPT !.cycle_counter = IF d.calculate_en = 1 THEN inc ELSE Zero32,
                      !.calculation_done = 0,
                      !.state = IF d.calculate_en = 1 THEN 1 ELSE d.state]
    ELSE
        [d EXCEPT !.cycle_counter = Zero32,
                  !.state = 0,
                  !.optimal_bid = Zero64,
                  !.optimal_ask = Zero64,
                  !.calculation_done = 0,
                  !.latency_cycles = Zero32]

\* a variant whose done state returns to idle whatever calculate_en is
nba_sequent__TOP__0_doneLeaves(d) ==
    LET s == d.state
        b4 == (s \div 4) % 2 = 1
        b2 == (s \div 2) % 2 = 1
        b1 == s % 2 = 1
        inc == Add(One32, d.cycle_counter)
    IN
    IF d.rst_n = 1 THEN
        IF b4 THEN
            IF b2 THEN [d EXCEPT !.state = 0]
            ELSE IF b1 THEN [d EXCEPT !.state = 0]
            ELSE [d EXCEPT !.calculation_done = 1,
                           !.latency_cycles = d.cycle_counter,
                           !.state = 0]
        ELSE IF b2 THEN
            IF b1 THEN
                [d EXCEPT !.cycle_counter = inc,
                          !.optimal_bid = Sub(d.reservation_price, VL_SHIFTR_QQI(d.spread, 1)),
                          !.optimal_ask = Add(d.reservation_price, VL_SHIFTR_QQI(d.spread, 1)),
                          !.state = 4]
            ELSE
                [d EXCEPT !.cycle_counter = inc,
                          !.spread = VL_SHIFTR_QQI(d.mid_price, 7),
                          !.state = 3]
        ELSE IF b1 THEN
            [d EXCEPT !.cycle_counter = inc,
                      !.reservation_price =
                          Sub(d.mid_price, VL_SHIFTL_QQI(ZeroExt(d.inventory, 4), 10)),
                      !.state = 2]
        ELSE
            [d EXCEPT !.cycle_counter = IF d.calculate_en = 1 THEN inc ELSE Zero32,
                      !.calculation_done = 0,
                      !.state = IF d.calculate_en = 1 THEN 1 ELSE d.state]
    ELSE
        [d EXCEPT !.cycle_counter = Zero32,
                  !.state = 0,
                  !.optimal_bid = Zero64,
                  !.optimal_ask = Zero64,
                  !.calculation_done = 0,
                  !.latency_cycles = Zero32]

\* always @(posedge clk or negedge rst_n) of hjb_calculator: the delayed
\* (non-blocking) values of state and cycle_counter are computed from the
\* values before the edge
nba_sequent__TOP__0(d) ==
    LET s == d.state
        b4 == (s \div 4) % 2 = 1
        b2 == (s \div 2) % 2 = 1
        b1 == s % 2 = 1
        inc == Add(One32, d.cycle_counter)
    IN
    IF d.rst_n = 1 THEN
        IF b4 THEN
            IF b2 THEN [d EXCEPT !.state = 0]
            ELSE IF b1 THEN [d EXCEPT !.state = 0]
            ELSE [d EXCEPT !.calculation_done = 1,
                           !.latency_cycles = d.cycle_counter,
                           !.state = IF d.calculate_en = 0 THEN 0 ELSE d.state]
        ELSE IF b2 THEN
            IF b1 THEN
                [d EXCEPT !.cycle_counter = inc,
                          !.optimal_bid = Sub(d.reservation_price, VL_SHIFTR_QQI(d.spread, 1)),
                          !.optimal_ask = Add(d.reservation_price, VL_SHIFTR_QQI(d.spread, 1)),
                          !.state = 4]
            ELSE
                [d EXCEPT !.cycle_counter = inc,
                          !.spread = VL_SHIFTR_QQI(d.mid_price, 7),
                          !.state = 3]
        ELSE IF b1 THEN
            [d EXCEPT !.cycle_counter = inc,
                      !.reservation_price =
                          Sub(d.mid_price, VL_SHIFTL_QQI(ZeroExt(d.inventory, 4), 10)),
                      !.state = 2]
        ELSE
            [d EXCEPT !.cycle_counter = IF d.calculate_en = 1 THEN inc ELSE Zero32,
                      !.calculation_done = 0,
                      !.state = IF d.calculate_en = 1 THEN 1 ELSE d.state]
    ELSE
        [d EXCEPT !.cycle_counter = Zero32,
                  !.state = 0,
                  !.optimal_bid = Zero64,
                  !.optimal_ask = Zero64,
                  !.calculation_done = 0,
                  !.latency_cycles = Zero32]

eval_nba(d) == IF d.VnbaTriggered # {} THEN nba_sequent__TOP__0(d) ELSE d

\* returns <<device, __VactExecute>>
eval_phase__act(d) ==
    LET t == eval_triggers__act(d)
    IN IF t.VactTriggered # {}
       THEN <<[t EXCEPT !.VnbaTriggered = t.VnbaTriggered \cup t.VactTriggered], TRUE>>
       ELSE <<t, FALSE>>

\* returns <<device, __VnbaExecute>>
eval_phase__nba(d) ==
    IF d.VnbaTriggered # {}
    THEN <<[eval_nba(d) EXCEPT !.VnbaTriggered = {}], TRUE>>
    ELSE <<d, FALSE>>

RECURSIVE ActLoop(_)
ActLoop(d) ==
    LET a == eval_phase__act(d)
    IN IF a[2] THEN ActLoop(a[1]) ELSE a[1]

\* ___eval: the active region is iterated until no trigger fires, then the
\* NBA region runs, until neither changes anything (the 100-iteration
\* convergence guards are never reached: a trigger fires once per change of
\* clk or rst_n)
RECURSIVE eval_loop(_)
eval_loop(d) ==
    LET n == eval_phase__nba(ActLoop(d))
    IN IF n[2] THEN eval_loop(n[1]) ELSE n[1]

\* Vhjb_calculator::eval_step (eval() of the model)
eval(d) ==
    eval_loop(IF ~d.Vm_didInit
              THEN [eval_static(d) EXCEPT !.Vm_didInit = TRUE]
              ELSE d)


(***************************************************************************)
(* The synchronous calculation bridge (cpp_wrapper/hjb_wrapper.cpp)        *)
(***************************************************************************)
VARIABLES
    hjb_module,     \* static Vhjb_calculator* : NULL or the address of a device
    main_time,      \* static uint64_t main_time
    result,         \* the caller's HJBResult that hjb_calculate writes through
    heap,           \* the Vhjb_calculator objects allocated and not deleted, by address
    call,           \* the last bridge call: function, arguments, returned status
    ncalls,         \* number of bridge calls made so far
    misused,        \* number of hjb_calculate calls refused for lack of a handle
    fault,          \* the device the bridge drives: "none" is the verilated
                    \* hjb_calculator, "done_low" one whose calculation_done
                    \* output never asserts
    seen            \* the <<outcome, status>> pairs of the hjb_calculate calls
                    \* made so far

bridgeVars == <<hjb_module, main_time, result, heap, call, ncalls, misused, fault, seen>>

\* bounds of the exploration
MaxCalls == 5

\* the 1000 of the clocking loop of hjb_calculate
CalcTimeout == 1000
\* the 5 clock toggles of the reset loop of hjb_init
ResetToggles == 5

\* arguments offered to hjb_calculate: 150.0 and 200.0, 0.02 and 0.04 as
\* IEEE-754 bit patterns (0x4062C00000000000, 0x4069000000000000,
\* 0x3F947AE147AE147B, 0x3FA47AE147AE147B)
MidPrices == {<<0, 0, 49152, 16482>>, <<0, 0, 0, 16489>>}
Inventories == {0, 5, -1}
Volatilities == {<<5243, 18350, 31457, 16276>>, <<5243, 18350, 31457, 16292>>}

\* 150.0 and 0.02
Mid150 == <<0, 0, 49152, 16482>>
Vol002 == <<5243, 18350, 31457, 16276>>

NoCall == [fn |-> "none", status |-> 0]

\* hjb_module->eval().  The verilated hjb_calculator completes every request
\* within a few clock edges; the timeout path of hjb_calculate is reached
\* only with a device that does not answer, which is the verilated one with
\* its calculation_done output held low.
hold_done_low(d) == [d EXCEPT !.calculation_done = 0]

module_eval(d) == IF fault = "none" THEN eval(d) ELSE hold_done_low(eval(d))

RECURSIVE ResetClocks(_, _, _)
\* for (int i = 0; i < 5; i++) { clk = !clk; eval(); main_time++; }
ResetClocks(d, mt, i) ==
    IF i < ResetToggles
    THEN ResetClocks(module_eval([d EXCEPT !.clk = 1 - d.clk]), mt + 1, i + 1)
    ELSE <<d, mt>>

\* a variant that leaves out the reset clocking
NewModule_noResetClocks(r, mt) ==
    LET d0 == ctor_var_reset(r)
        d1 == module_eval([d0 EXCEPT !.rst_n = 0, !.clk = 0, !.calculate_en = 0])
    IN <<module_eval([d1 EXCEPT !.rst_n = 1]), mt>>

\* a variant that holds rst_n high during the reset clocking
NewModule_resetHigh(r, mt) ==
    LET d0 == ctor_var_reset(r)
        d1 == module_eval([d0 EXCEPT !.rst_n = 1, !.clk = 0, !.calculate_en = 0])
        c == ResetClocks(d1, mt, 0)
    IN <<module_eval([c[1] EXCEPT !.rst_n = 1]), c[2]>>

\* the body of hjb_init on a fresh instance with construction values r:
\* returns <<device, main_time>>
NewModule(r, mt) ==
    LET d0 == ctor_var_reset(r)
        d1 == module_eval([d0 EXCEPT !.rst_n = 0, !.clk = 0, !.calculate_en = 0])
        c == ResetClocks(d1, mt, 0)
    IN <<module_eval([c[1] EXCEPT !.rst_n = 1]), c[2]>>

\* operator new / delete on the heap of device objects
NewAddress(h) == CHOOSE a \in 1..(Cardinality(DOMAIN h) + 1) : a \notin DOMAIN h
Allocate(h, a, d) == [x \in DOMAIN h \cup {a} |-> IF x = a THEN d ELSE h[x]]
Delete(h, a) == [x \in DOMAIN h \ {a} |-> h[x]]
Store(h, a, d) == [h EXCEPT ![a] = d]

\* a variant without the "already initialised" early return
hjb_init_always ==
    /\ \E r \in RandResetChoices :
           /\ hjb_module' = NewAddress(heap)
           /\ heap' = Allocate(heap, NewAddress(heap), NewModule(r, main_time)[1])
           /\ main_time' = NewModule(r, main_time)[2]
    /\ call' = [fn |-> "hjb_init", status |-> 0, created |-> TRUE]
    /\ ncalls' = ncalls + 1
    /\ UNCHANGED <<result, misused, fault, seen>>

\* call.created: whether this call made the instance
hjb_init ==
    /\ IF hjb_module # NULL
       THEN UNCHANGED <<hjb_module, main_time, heap>>
       ELSE \E r \in RandResetChoices :
               /\ hjb_module' = NewAddress(heap)
               /\ heap' = Allocate(heap, NewAddress(heap), NewModule(r, main_time)[1])
               /\ main_time' = NewModule(r, main_time)[2]
    /\ call' = [fn |-> "hjb_init", status |-> 0, created |-> hjb_module = NULL]
    /\ ncalls' = ncalls + 1
    /\ UNCHANGED <<result, misused, fault, seen>>

\* the condition of the clocking loop on x = <<device, main_time>>:
\* !calculation_done && (main_time - start_time) < 1000
ClockCond(x, start_time) ==
    x[1].calculation_done = 0 /\ (x[2] - start_time) < CalcTimeout

\* the body of the clocking loop: { clk = !clk; eval(); main_time++; }
ClockBody(x) == <<module_eval([x[1] EXCEPT !.clk = 1 - x[1].clk]), x[2] + 1>>

RECURSIVE ClockSteps(_, _, _)
\* up to n passes of the loop from x, evaluated as two halves to keep the
\* nesting of the evaluation logarithmic in n
ClockSteps(x, start_time, n) ==
    IF n = 0 \/ ~ClockCond(x, start_time) THEN x
    ELSE IF n = 1 THEN ClockBody(x)
    ELSE ClockSteps(ClockSteps(x, start_time, n \div 2), start_time, n - (n \div 2))

\* while (!calculation_done && (main_time - start_time) < 1000)
\*     { clk = !clk; eval(); main_time++; }
\* main_time grows by one per pass, so the loop makes at most 1000 passes
ClockUntilDone(d, mt, start_time) == ClockSteps(<<d, mt>>, start_time, CalcTimeout)

CallRecord(mid_price, inventory, volatility, status) ==
    [fn |-> "hjb_calculate", mid_price |-> mid_price, inventory |-> inventory,
     volatility |-> volatility, status |-> status]

\* a variant that does not write the mid_price input
StartAndClock_keepsMidPrice(d, mt, mid_price, inventory, volatility) ==
    LET start_time == mt
        d1 == module_eval([d EXCEPT !.inventory = FromInt32(inventory),
                                    !.volatility = volatility,
                                    !.calculate_en = 1])
    IN ClockUntilDone(d1, mt, start_time)

\* a variant that does not raise calculate_en
StartAndClock_noEnable(d, mt, mid_price, inventory, volatility) ==
    LET start_time == mt
        d1 == module_eval([d EXCEPT !.mid_price = mid_price,
                             !.inventory = FromInt32(inventory),
                             !.volatility = volatility])
    IN ClockUntilDone(d1, mt, start_time)

\* the inputs written and calculate_en raised, then the clocking loop:
\* returns <<device, main_time>>
StartAndClock(d, mt, mid_price, inventory, volatility) ==
    LET start_time == mt
        d1 == module_eval([d EXCEPT !.mid_price = mid_price,
                             !.inventory = FromInt32(inventory),
                             !.volatility = volatility,
                             !.calculate_en = 1])
    IN ClockUntilDone(d1, mt, start_time)

\* a variant that reports success when there is no handle
hjb_calculate_statusOk(mid_price, inventory, volatility) ==
    /\ ncalls' = ncalls + 1
    /\ UNCHANGED <<hjb_module, fault>>
    /\ IF hjb_module = NULL
       THEN /\ call' = CallRecord(mid_price, inventory, volatility, 0)
            /\ misused' = misused + 1
            /\ seen' = seen \cup {<<"misuse", 0>>}
            /\ UNCHANGED <<heap, main_time, result>>
       ELSE LET c == StartAndClock(heap[hjb_module], main_time,
                                   mid_price, inventory, volatility)
            IN /\ main_time' = c[2]
               /\ UNCHANGED misused
               /\ IF c[1].calculation_done = 1
                  THEN /\ result' = [bid |-> c[1].optimal_bid,
                                     ask |-> c[1].optimal_ask,
                                     latency_ns |-> ShiftL(c[1].latency_cycles, 2)]
                       /\ heap' = Store(heap, hjb_module,
                                        module_eval([c[1] EXCEPT !.calculate_en = 0]))
                       /\ call' = CallRecord(mid_price, inventory, volatility, 0)
                       /\ seen' = seen \cup {<<"success", 0>>}
                  ELSE /\ heap' = Store(heap, hjb_module, c[1])
                       /\ UNCHANGED result
                       /\ call' = CallRecord(mid_price, inventory, volatility, -1)
                       /\ seen' = seen \cup {<<"timeout", -1>>}

\* a variant that gives up the request on timeout: it lowers calculate_en
hjb_calculate_dropsEnable(mid_price, inventory, volatility) ==
    /\ ncalls' = ncalls + 1
    /\ UNCHANGED <<hjb_module, fault>>
    /\ IF hjb_module = NULL
       THEN /\ call' = CallRecord(mid_price, inventory, volatility, -1)
            /\ misused' = misused + 1
            /\ seen' = seen \cup {<<"misuse", -1>>}
            /\ UNCHANGED <<heap, main_time, result>>
       ELSE LET c == StartAndClock(heap[hjb_module], main_time,
                                   mid_price, inventory, volatility)
            IN /\ main_time' = c[2]
               /\ UNCHANGED misused
               /\ heap' = Store(heap, hjb_module,
                                module_eval([c[1] EXCEPT !.calculate_en = 0]))
               /\ IF c[1].calculation_done = 1
                  THEN /\ result' = [bid |-> c[1].optimal_bid,
                                     ask |-> c[1].optimal_ask,
                                     latency_ns |-> ShiftL(c[1].latency_cycles, 2)]
                       /\ call' = CallRecord(mid_price, inventory, volatility, 0)
                       /\ seen' = seen \cup {<<"success", 0>>}
                  ELSE /\ UNCHANGED result
                       /\ call' = CallRecord(mid_price, inventory, volatility, -1)
                       /\ seen' = seen \cup {<<"timeout", -1>>}

hjb_calculate(mid_price, inventory, volatility) ==
    /\ ncalls' = ncalls + 1
    /\ UNCHANGED <<hjb_module, fault>>
    /\ IF hjb_module = NULL
       THEN /\ call' = CallRecord(mid_price, inventory, volatility, -1)
            /\ misused' = misused + 1
            /\ seen' = seen \cup {<<"misuse", -1>>}
            /\ UNCHANGED <<heap, main_time, result>>
       ELSE LET c == StartAndClock(heap[hjb_module], main_time,
                                   mid_price, inventory, volatility)
            IN /\ main_time' = c[2]
               /\ UNCHANGED misused
               /\ IF c[1].calculation_done = 1
                  THEN /\ result' = [bid |-> c[1].optimal_bid,
                                     ask |-> c[1].optimal_ask,
                                     \* latency_cycles * 4 in uint32_t
                                     latency_ns |-> ShiftL(c[1].latency_cycles, 2)]
                       /\ heap' = Store(heap, hjb_module,
                                        module_eval([c[1] EXCEPT !.calculate_en = 0]))
                       /\ call' = CallRecord(mid_price, inventory, volatility, 0)
                       /\ seen' = seen \cup {<<"success", 0>>}
                  ELSE /\ heap' = Store(heap, hjb_module, c[1])
                       /\ UNCHANGED result
                       /\ call' = CallRecord(mid_price, inventory, volatility, -1)
                       /\ seen' = seen \cup {<<"timeout", -1>>}

hjb_cleanup ==
    /\ IF hjb_module # NULL
       THEN /\ heap' = Delete(heap, hjb_module)
            /\ hjb_module' = NULL
       ELSE UNCHANGED <<hjb_module, heap>>
    /\ call' = [fn |-> "hjb_cleanup", status |-> 0]
    /\ ncalls' = ncalls + 1
    /\ UNCHANGED <<main_time, result, misused, fault, seen>>

\* HJBResult the caller passes in, before any call wrote it
UnwrittenResult == [bid |-> Zero64, ask |-> Zero64, latency_ns |-> Zero32]

\* the statics of the bridge before any call
BridgeStatics ==
    /\ hjb_module = NULL
    /\ main_time = 0
    /\ result = UnwrittenResult
    /\ heap = <<>>
    /\ call = NoCall
    /\ ncalls = 0
    /\ misused = 0
    /\ seen = {}

\* the bridge before any call, driving the verilated device
BridgeIdle == BridgeStatics /\ fault = "none"



(***************************************************************************)
(* The co-simulation harness (cpp_testbench/fpga_trading_system_test.cpp)  *)
(*                                                                         *)
(* The trading pipeline device (Vfpga_trading_system_tb) is an opaque      *)
(* synchronous design: the harness drives its inputs and reads             *)
(* order_execution_valid, which the device may set to either value at any  *)
(* rising clock edge.                                                      *)
(***************************************************************************)
VARIABLES
    test,       \* the FPGATradingSystemTest object: dut ports, counters, symbol
                \* table and the waveform summary kept for the trace sink
    op          \* the last harness operation completed, with its arguments

\* stands for UINT64_MAX (2^64 - 1), the initial min_latency: the largest
\* integer of the checker, far above every counter of the explored states
UINT64_MAX == 2147483647

\* reset(): "Hold reset for 5 cycles"
ResetHoldCycles == 5
\* symbols = {"AAPL", "GOOGL", "MSFT", "TSLA", "NVDA"} as character codes
symbols == << <<65, 65, 80, 76>>, <<71, 79, 79, 71, 76>>, <<77, 83, 70, 84>>,
              <<84, 83, 76, 65>>, <<78, 86, 68, 65>> >>

Min(a, b) == IF a < b THEN a ELSE b

RECURSIVE PackSymbol(_, _, _)
\* for (i = 0; i < min(symbol.length(), 4); ++i) code |= symbol[i] << (24 - i*8)
PackSymbol(symbol, code, i) ==
    IF i < Min(Len(symbol), 4)
    THEN PackSymbol(symbol, Or(code, ShiftL(Limbs(symbol[i + 1], 2), 24 - i * 8)), i + 1)
    ELSE code

initializeSymbolCodes == [k \in 1..Len(symbols) |-> PackSymbol(symbols[k], Zero32, 0)]

\* MarketDataGenerator::initializeSymbols: name and code of each entry of
\* the generator's table (0x41415054, 0x474f4f47, 0x4d534654, 0x54534c41,
\* 0x4e564441)
initializeSymbols ==
    << [name |-> <<65, 65, 80, 76>>,     code |-> <<20564, 16705>>],
       [name |-> <<71, 79, 79, 71, 76>>, code |-> <<20295, 18255>>],
       [name |-> <<77, 83, 70, 84>>,     code |-> <<18004, 19795>>],
       [name |-> <<84, 83, 76, 65>>,     code |-> <<19521, 21587>>],
       [name |-> <<78, 86, 68, 65>>,     code |-> <<17473, 20054>>] >>

\* dut->eval(): out is the value the device gives order_execution_valid if
\* this evaluation sees a rising clock edge
tb_eval(t, out) ==
    IF t.dut.clk = 1 /\ t.trace.prevClk = 0
    THEN [t EXCEPT !.dut.order_execution_valid = out]
    ELSE t

\* trace->dump(...): the waveform sample taken after an evaluation, kept as
\* a summary: number of samples, the clk of the last two samples, the number
\* of rising edges, of rising edges that carried market_data_valid (and the
\* word and kind of the last one), of rising edges in reset (and of those
\* with an input not zero), and the inputs at the last rising edge
dump(t) ==
    LET edge == t.dut.clk = 1 /\ t.trace.prevClk = 0
        valid == edge /\ t.dut.market_data_valid = 1
        sample == [rst_n |-> t.dut.rst_n,
                   market_data_valid |-> t.dut.market_data_valid,
                   market_data_in |-> t.dut.market_data_in,
                   market_data_type |-> t.dut.market_data_type]
    IN [t EXCEPT !.trace =
           [evals |-> @.evals + 1,
            prevClk |-> t.dut.clk,
            evalClks |-> <<@.evalClks[2], t.dut.clk>>,
            edges |-> IF edge THEN @.edges + 1 ELSE @.edges,
            validEdges |-> IF valid THEN @.validEdges + 1 ELSE @.validEdges,
            lastValid |-> IF valid THEN <<t.dut.market_data_in, t.dut.market_data_type>>
                          ELSE @.lastValid,
            validInReset |-> @.validInReset \/ (valid /\ t.dut.rst_n = 0),
            lowEdges |-> IF edge /\ t.dut.rst_n = 0 THEN @.lowEdges + 1 ELSE @.lowEdges,
            lowDirty |-> IF edge /\ t.dut.rst_n = 0
                            /\ (t.dut.market_data_valid # 0
                                \/ t.dut.market_data_in # Zero64
                                \/ t.dut.market_data_type # 0)
                         THEN @.lowDirty + 1 ELSE @.lowDirty,
            lastEdge |-> IF edge THEN sample ELSE @.lastEdge]]

\* a variant that evaluates the high half-period first
clockCycle_highFirst(t, out) ==
    LET t1 == dump(tb_eval([t EXCEPT !.dut.clk = 1], out))
        t2 == dump(tb_eval([t1 EXCEPT !.dut.clk = 0], out))
    IN [t2 EXCEPT !.cycle_count = @ + 1]

clockCycle(t, out) ==
    LET t1 == dump(tb_eval([t EXCEPT !.dut.clk = 0], out))
        t2 == dump(tb_eval([t1 EXCEPT !.dut.clk = 1], out))
    IN [t2 EXCEPT !.cycle_count = @ + 1]

RECURSIVE ClockCycles(_, _, _)
\* clockCycle() called once per element of outs, from index k
ClockCycles(t, outs, k) ==
    IF k <= Len(outs) THEN ClockCycles(clockCycle(t, outs[k]), outs, k + 1) ELSE t

\* a variant that does not clear market_data_valid
reset_keepsValid(t, outs) ==
    LET t0 == [t EXCEPT !.dut.rst_n = 0, !.dut.clk = 0,
                        !.dut.market_data_in = Zero64, !.dut.market_data_type = 0]
        t1 == ClockCycles(t0, SubSeq(outs, 1, ResetHoldCycles), 1)
    IN clockCycle([t1 EXCEPT !.dut.rst_n = 1], outs[ResetHoldCycles + 1])

\* a variant that also starts the session counters afresh
reset_clearsCounters(t, outs) ==
    LET t0 == [t EXCEPT !.dut.rst_n = 0, !.dut.clk = 0, !.dut.market_data_valid = 0,
                        !.dut.market_data_in = Zero64, !.dut.market_data_type = 0,
                        !.total_ticks = 0, !.total_executions = 0,
                        !.total_latency = 0, !.max_latency = 0,
                        !.min_latency = UINT64_MAX]
        t1 == ClockCycles(t0, SubSeq(outs, 1, ResetHoldCycles), 1)
    IN clockCycle([t1 EXCEPT !.dut.rst_n = 1], outs[ResetHoldCycles + 1])

\* outs: the device outputs of the 5 + 1 cycles
reset(t, outs) ==
    LET t0 == [t EXCEPT !.dut.rst_n = 0, !.dut.clk = 0, !.dut.market_data_valid = 0,
                        !.dut.market_data_in = Zero64, !.dut.market_data_type = 0]
        t1 == ClockCycles(t0, SubSeq(outs, 1, ResetHoldCycles), 1)
    IN clockCycle([t1 EXCEPT !.dut.rst_n = 1], outs[ResetHoldCycles + 1])

\* a variant that widens price as a signed value
PackWord_signExtends(symbol_code, price) ==
    Or(ShiftL(ZeroExt(symbol_code, 4), 32),
       IF price[2] >= 32768 THEN <<price[1], price[2], 65535, 65535>>
       ELSE ZeroExt(price, 4))

\* (static_cast<uint64_t>(symbol_code) << 32) | price
PackWord(symbol_code, price) == Or(ShiftL(ZeroExt(symbol_code, 4), 32), ZeroExt(price, 4))

\* a variant that leaves market_data_valid asserted
sendMarketData_keepsValid(t, symbol_code, price, volume, msg_type, out) ==
    LET t0 == [t EXCEPT !.dut.market_data_type = msg_type,
                        !.dut.market_data_in = PackWord(symbol_code, price),
                        !.dut.market_data_valid = 1]
        t1 == clockCycle(t0, out)
    IN [t1 EXCEPT !.total_ticks = @ + 1]

\* a variant that clocks the event for two cycles
sendMarketData_twoCycles(t, symbol_code, price, volume, msg_type, out) ==
    LET t0 == [t EXCEPT !.dut.market_data_type = msg_type,
                        !.dut.market_data_in = PackWord(symbol_code, price),
                        !.dut.market_data_valid = 1]
        t1 == clockCycle(clockCycle(t0, out), out)
    IN [t1 EXCEPT !.dut.market_data_valid = 0, !.total_ticks = @ + 1]

sendMarketData(t, symbol_code, price, volume, msg_type, out) ==
    LET t0 == [t EXCEPT !.dut.market_data_type = msg_type,
                        !.dut.market_data_in = PackWord(symbol_code, price),
                        !.dut.market_data_valid = 1]
        t1 == clockCycle(t0, out)
    IN [t1 EXCEPT !.dut.market_data_valid = 0, !.total_ticks = @ + 1]

RECURSIVE WaitLoop_stopsEarly(_, _, _, _)
\* a variant whose bound is off by one
WaitLoop_stopsEarly(t, max_cycles, outs, wait_cycles) ==
    IF t.dut.order_execution_valid = 0 /\ wait_cycles + 1 < max_cycles
    THEN WaitLoop_stopsEarly(clockCycle(t, outs[wait_cycles + 1]), max_cycles, outs,
                             wait_cycles + 1)
    ELSE t

RECURSIVE WaitLoop(_, _, _, _)
\* while (!dut->order_execution_valid && wait_cycles < max_cycles)
\*     { clockCycle(); wait_cycles++; }
WaitLoop(t, max_cycles, outs, wait_cycles) ==
    IF t.dut.order_execution_valid = 0 /\ wait_cycles < max_cycles
    THEN WaitLoop(clockCycle(t, outs[wait_cycles + 1]), max_cycles, outs, wait_cycles + 1)
    ELSE t

\* a variant that does not track the minimum
waitForExecution_noMin(t, max_cycles, outs) ==
    LET start_cycle == t.cycle_count
        t1 == WaitLoop(t, max_cycles, outs, 0)
        latency == t1.cycle_count - start_cycle
    IN IF t1.dut.order_execution_valid = 1
       THEN [t1 EXCEPT !.total_latency = @ + latency,
                       !.total_executions = @ + 1,
                       !.max_latency = IF latency > @ THEN latency ELSE @]
       ELSE t1

\* outs: the device outputs of the cycles the loop may run (max_cycles of them)
waitForExecution(t, max_cycles, outs) ==
    LET start_cycle == t.cycle_count
        t1 == WaitLoop(t, max_cycles, outs, 0)
        latency == t1.cycle_count - start_cycle
    IN IF t1.dut.order_execution_valid = 1
       THEN [t1 EXCEPT !.total_latency = @ + latency,
                       !.total_executions = @ + 1,
                       !.max_latency = IF latency > @ THEN latency ELSE @,
                       !.min_latency = IF latency < @ THEN latency ELSE @]
       ELSE t1

(***************************************************************************)
(* The statistics of runLatencyBenchmark                                   *)
(***************************************************************************)
\* std::sort(latencies.begin(), latencies.end()): the ascending arrangement;
\* position k holds the least value v with at least k elements <= v
Sort(s) ==
    [k \in 1..Len(s) |->
        CHOOSE v \in {s[n] : n \in 1..Len(s)} :
            /\ Cardinality({n \in 1..Len(s) : s[n] <= v}) >= k
            /\ Cardinality({n \in 1..Len(s) : s[n] < v}) < k]

RECURSIVE SumRange(_, _, _)
\* for (auto lat : latencies) sum += lat, over the positions lo..hi
SumRange(s, lo, hi) ==
    IF lo > hi THEN 0
    ELSE IF lo = hi THEN s[lo]
    ELSE SumRange(s, lo, (lo + hi) \div 2) + SumRange(s, ((lo + hi) \div 2) + 1, hi)

\* the 53-bit significands of the doubles 0.95 (0x3FEE666666666666) and
\* 0.99 (0x3FEFAE147AE147AE); the value of each is significand * 2^-53
Significand95 == <<26214, 26214, 26214, 30>>
Significand99 == <<18350, 31457, 44564, 31>>
\* bits of a double significand
SignificandBits == 53

RECURSIVE MulCarry(_, _, _)
MulCarry(x, n, k) ==
    IF k = 1 THEN 0 ELSE (x[k - 1] * n + MulCarry(x, n, k - 1)) \div LimbBase

\* x * n modulo 2^(16 * Len(x)), for a small n
MulSmall(x, n) == [k \in 1..Len(x) |-> (x[k] * n + MulCarry(x, n, k)) % LimbBase]

RECURSIVE BitLength(_)
BitLength(v) == IF v = 0 THEN 0 ELSE 1 + BitLength(v \div 2)

\* static_cast<size_t>(size * c) for the double c = significand * 2^-53:
\* size converts exactly, the product is rounded to 53 significant bits
\* (to nearest, ties to even) and the conversion to size_t truncates
SizeTimes(size, significand) ==
    LET product == MulSmall(significand, size)
        drop == IF size = 0 THEN 0
                ELSE (48 + BitLength(product[4])) - SignificandBits
        low == product[1] % (2 ^ drop)
        lsb == (product[1] \div (2 ^ drop)) % 2
        down == Sub(product, Limbs(low, 4))
        up == drop > 0 /\ (2 * low > 2 ^ drop \/ (2 * low = 2 ^ drop /\ lsb = 1))
        rounded == IF up THEN Add(down, Limbs(2 ^ drop, 4)) ELSE down
    IN ShiftR(rounded, SignificandBits)[1]

\* operator[] of the sorted vector: reading past the end is undefined, it is
\* recorded as a fault
At(s, k) == IF 0 <= k /\ k < Len(s) THEN s[k + 1] ELSE 0
AtFaults(s, k) == IF 0 <= k /\ k < Len(s) THEN {} ELSE {"out of range"}

\* a double quotient of two exactly converted integers, kept as its operands
Div(num, den) == [num |-> num, den |-> den]
DivFaults(den) == IF den = 0 THEN {"division by zero"} ELSE {}

\* nothing printed: the statistics block was skipped
NoStatistics == [computed |-> FALSE, faults |-> {}]

\* a variant that takes the lower median
Statistics_lowerMedian(sorted) ==
    LET size == Len(sorted)
        sum == SumRange(sorted, 1, size)
        i50 == (size - 1) \div 2
        i95 == SizeTimes(size, Significand95)
        i99 == SizeTimes(size, Significand99)
    IN [computed |-> TRUE,
        sum |-> sum,
        avg_latency |-> Div(sum, size),
        p50_index |-> i50, p50_latency |-> At(sorted, i50),
        p95_index |-> i95, p95_latency |-> At(sorted, i95),
        p99_index |-> i99, p99_latency |-> At(sorted, i99),
        min |-> At(sorted, 0),
        max |-> At(sorted, size - 1),
        faults |-> DivFaults(size) \cup AtFaults(sorted, i50) \cup AtFaults(sorted, i95)
                   \cup AtFaults(sorted, i99) \cup AtFaults(sorted, 0)
                   \cup AtFaults(sorted, size - 1)]

\* lines 265-273 on the sorted vector
Statistics(sorted) ==
    LET size == Len(sorted)
        sum == SumRange(sorted, 1, size)
        i50 == size \div 2
        i95 == SizeTimes(size, Significand95)
        i99 == SizeTimes(size, Significand99)
    IN [computed |-> TRUE,
        sum |-> sum,
        avg_latency |-> Div(sum, size),
        p50_index |-> i50, p50_latency |-> At(sorted, i50),
        p95_index |-> i95, p95_latency |-> At(sorted, i95),
        p99_index |-> i99, p99_latency |-> At(sorted, i99),
        min |-> At(sorted, 0),
        max |-> At(sorted, size - 1),
        faults |-> DivFaults(size) \cup AtFaults(sorted, i50) \cup AtFaults(sorted, i95)
                   \cup AtFaults(sorted, i99) \cup AtFaults(sorted, 0)
                   \cup AtFaults(sorted, size - 1)]

(***************************************************************************)
(* The figures of generateReport                                           *)
(***************************************************************************)
\* static constexpr uint64_t CLOCK_PERIOD = 4
CLOCK_PERIOD == 4

\* nothing printed yet
NoReport == [printed |-> FALSE, faults |-> {}]

\* the quotients generateReport prints, each a one-element set when its
\* guard lets it be computed: the execution rate
\* (total_executions / total_ticks * 100.0), the average latency
\* (total_latency / total_executions) and the effective frequency
\* (cycle_count / (simulated_time_ns / 1000.0), not guarded)
Report(t) ==
    LET simulated_time_ns == t.cycle_count * CLOCK_PERIOD
    IN [printed |-> TRUE,
        execution_rate |-> IF t.total_ticks > 0
                           THEN {Div(t.total_executions, t.total_ticks)} ELSE {},
        average_latency |-> IF t.total_executions > 0
                            THEN {Div(t.total_latency, t.total_executions)} ELSE {},
        simulated_time_ns |-> simulated_time_ns,
        simulated_frequency |-> Div(t.cycle_count, simulated_time_ns),
        faults |-> (IF t.total_ticks > 0 THEN DivFaults(t.total_ticks) ELSE {})
                   \cup (IF t.total_executions > 0 THEN DivFaults(t.total_executions) ELSE {})
                   \cup DivFaults(simulated_time_ns)]

\* The object after construction.  The ports of the new device hold whatever
\* its constructor left there (p); the counters are set by the initializer
\* list.
PortChoices == [bit : {0, 1}, out : {0, 1}]

FPGATradingSystemTest(p) ==
    [dut |-> [rst_n |-> p.bit, clk |-> p.bit, market_data_valid |-> p.bit,
              market_data_in |-> IF p.bit = 1 THEN Ones64 ELSE Zero64,
              market_data_type |-> IF p.bit = 1 THEN 255 ELSE 0,
              order_execution_valid |-> p.out],
     cycle_count |-> 0,
     total_ticks |-> 0,
     total_executions |-> 0,
     total_latency |-> 0,
     max_latency |-> 0,
     min_latency |-> UINT64_MAX,
     symbol_codes |-> initializeSymbolCodes,
     trace |-> [evals |-> 0, prevClk |-> p.bit, evalClks |-> <<p.bit, p.bit>>,
                edges |-> 0, validEdges |-> 0, lastValid |-> <<>>,
                validInReset |-> FALSE, lowEdges |-> 0, lowDirty |-> 0,
                lastEdge |-> [rst_n |-> p.bit, market_data_valid |-> p.bit,
                              market_data_in |-> IF p.bit = 1 THEN Ones64 ELSE Zero64,
                              market_data_type |-> IF p.bit = 1 THEN 255 ELSE 0]]]


(***************************************************************************)
(* A caller that uses the public operations of the harness in any order    *)
(***************************************************************************)
VARIABLES
    pc,         \* position of runAllTests ("caller" outside runAllTests)
    i,          \* loop index of the running scenario
    j,          \* index of the running settle loop
    start_cycle,\* runLatencyBenchmark: cycle_count sampled before the injection
    latencies,  \* runLatencyBenchmark: the samples collected so far
    stats,      \* runLatencyBenchmark: the statistics it printed
    report      \* generateReport: the figures it printed

harnessVars == <<test, op, pc, i, j, start_cycle, latencies, stats, report>>
vars == <<hjb_module, main_time, result, heap, call, ncalls, misused, fault, seen,
          test, op, pc, i, j, start_cycle, latencies, stats, report>>

\* bounds of the exploration
MaxCycleCount == 4
MaxExecutions == 3
MaxCycles == 3

\* waitForExecution(uint32_t max_cycles = 100): the default, scaled down
DefaultMaxCycles == 3

Outs(n) == [1..n -> {0, 1}]

\* 0x96000000 and 0x64000000, the base price and volume of every scenario
BasePrice == <<0, 38400>>
BaseVolume == <<0, 25600>>

\* message kinds used by the scenarios: Add, Execute, Cancel
MSG_ADD == 65
MSG_EXECUTE == 69
MSG_CANCEL == 88

CallReset ==
    \E outs \in Outs(ResetHoldCycles + 1) :
        /\ test' = reset(test, outs)
        /\ op' = [name |-> "reset"]

CallClockCycle ==
    \E out \in {0, 1} :
        /\ test' = clockCycle(test, out)
        /\ op' = [name |-> "clockCycle"]

CallSendMarketData ==
    \E k \in {1}, msg_type \in {MSG_ADD, MSG_CANCEL}, out \in {0, 1} :
        /\ test' = sendMarketData(test, test.symbol_codes[k], BasePrice, BaseVolume,
                                  msg_type, out)
        /\ op' = [name |-> "sendMarketData", symbol_code |-> test.symbol_codes[k],
                  price |-> BasePrice, msg_type |-> msg_type]

CallWaitForExecution ==
    \E max_cycles \in 0..MaxCycles :
        \E outs \in Outs(max_cycles) :
            /\ test' = waitForExecution(test, max_cycles, outs)
            /\ op' = [name |-> "waitForExecution", max_cycles |-> max_cycles]

TestInit ==
    /\ \E p \in PortChoices : test = FPGATradingSystemTest(p)
    /\ op = [name |-> "FPGATradingSystemTest"]
    /\ pc = "caller"
    /\ i = 0
    /\ j = 0
    /\ start_cycle = 0
    /\ latencies = <<>>
    /\ stats = NoStatistics
    /\ report = NoReport
    /\ BridgeIdle

\* the exploration stops at the bounds
WithinBounds ==
    /\ test.cycle_count < MaxCycleCount
    /\ test.total_executions < MaxExecutions

CallerReset ==
    /\ WithinBounds
    /\ CallReset
    /\ UNCHANGED <<pc, i, j, start_cycle, latencies, stats, report>>
    /\ UNCHANGED bridgeVars

CallerClockCycle ==
    /\ WithinBounds
    /\ CallClockCycle
    /\ UNCHANGED <<pc, i, j, start_cycle, latencies, stats, report>>
    /\ UNCHANGED bridgeVars

CallerSendMarketData ==
    /\ WithinBounds
    /\ CallSendMarketData
    /\ UNCHANGED <<pc, i, j, start_cycle, latencies, stats, report>>
    /\ UNCHANGED bridgeVars

CallerWaitForExecution ==
    /\ WithinBounds
    /\ CallWaitForExecution
    /\ UNCHANGED <<pc, i, j, start_cycle, latencies, stats, report>>
    /\ UNCHANGED bridgeVars

TestNext ==
    \/ CallerReset
    \/ CallerClockCycle
    \/ CallerSendMarketData
    \/ CallerWaitForExecution

\* the harness driven through its public operations in any order
SpecTest == TestInit /\ [][TestNext]_vars

HarnessIdle ==
    /\ test = FPGATradingSystemTest([bit |-> 0, out |-> 0])
    /\ op = [name |-> "FPGATradingSystemTest"]
    /\ pc = "caller"
    /\ i = 0
    /\ j = 0
    /\ start_cycle = 0
    /\ latencies = <<>>
    /\ stats = NoStatistics
    /\ report = NoReport

BridgeInit == BridgeIdle /\ HarnessIdle

\* the calls a client of the bridge can make
InitCall ==
    /\ ncalls < MaxCalls
    /\ hjb_init
    /\ UNCHANGED harnessVars

CalculateCall ==
    /\ ncalls < MaxCalls
    /\ \E m \in MidPrices, inv \in Inventories, v \in Volatilities :
           hjb_calculate(m, inv, v)
    /\ UNCHANGED harnessVars

CleanupCall ==
    /\ ncalls < MaxCalls
    /\ hjb_cleanup
    /\ UNCHANGED harnessVars

BridgeNext == InitCall \/ CalculateCall \/ CleanupCall

\* the bridge called in any order
SpecBridge == BridgeInit /\ [][BridgeNext]_vars

\* the bridge called in any order, driving either the verilated device or
\* one that never answers
TimeoutInit ==
    /\ BridgeStatics
    /\ fault \in {"none", "done_low"}
    /\ HarnessIdle

\* every timed-out call clocks the device 1000 times, so this caller varies
\* the price only
TimeoutCalculateCall ==
    /\ ncalls < MaxCalls
    /\ \E m \in MidPrices : hjb_calculate(m, 0, Vol002)
    /\ UNCHANGED harnessVars

TimeoutNext == InitCall \/ TimeoutCalculateCall \/ CleanupCall

SpecTimeout == TimeoutInit /\ [][TimeoutNext]_vars

(***************************************************************************)
(* The device that hjb_init made, driven through its ports: any value of  *)
(* calculate_en and mid_price at any toggle of clk, rst_n left high        *)
(***************************************************************************)
\* bound of the exploration: toggles of clk after hjb_init
MaxToggles == 16

\* the inputs written, clk toggled, eval(), main_time++; the call record
\* keeps the FSM state and calculation_done from before the toggle
DeviceToggle ==
    /\ hjb_module # NULL
    /\ main_time < ResetToggles + MaxToggles
    /\ \E en \in {0, 1}, m \in MidPrices :
           heap' = Store(heap, hjb_module,
                         module_eval([heap[hjb_module] EXCEPT
                                         !.calculate_en = en,
                                         !.mid_price = m,
                                         !.clk = 1 - heap[hjb_module].clk]))
    /\ main_time' = main_time + 1
    /\ call' = [fn |-> "eval", status |-> 0,
                state_before |-> heap[hjb_module].state,
                done_before |-> heap[hjb_module].calculation_done]
    /\ UNCHANGED <<hjb_module, result, ncalls, misused, fault, seen>>
    /\ UNCHANGED harnessVars

DeviceNext == InitCall \/ DeviceToggle

SpecDevice == BridgeInit /\ [][DeviceNext]_vars


(***************************************************************************)
(* runAllTests: reset, the five scenarios in their order, the report.      *)
(* Every step is one call of reset / clockCycle / sendMarketData /         *)
(* waitForExecution at the position pc of the running scenario.            *)
(***************************************************************************)
\* loop counts of the scenarios, scaled down: the source injects 10,000
\* ticks in runHighFrequencyTest, 1,000 pairs in runLatencyBenchmark and
\* 50,000 messages in runStressTest
HFTicks == 3
LatencyPairs == 2
StressMsgs == 4

\* runBasicFunctionalTest: "for (int i = 0; i < 10; ++i) clockCycle()"
BasicSettleCycles == 10
\* runMultiSymbolTest: "for (int j = 0; j < 5; ++j) clockCycle()"
MultiDelayCycles == 5
\* runHighFrequencyTest: "if (i % 100 == 0) clockCycle()"
HFProcessEvery == 100
\* runLatencyBenchmark: "for (int j = 0; j < 5; ++j) clockCycle()"
LatencySettleCycles == 5

\* base + k in uint32_t
Plus32(base, k) == Add(base, Limbs(k, 2))
\* base + k * 0x01000000 in uint32_t
Plus32Shifted24(base, k) == Add(base, ShiftL(Limbs(k, 2), 24))

Send(code, price, volume, msg_type) ==
    \E out \in {0, 1} :
        /\ test' = sendMarketData(test, code, price, volume, msg_type, out)
        /\ op' = [name |-> "sendMarketData", symbol_code |-> code,
                  price |-> price, msg_type |-> msg_type]

Clock ==
    \E out \in {0, 1} :
        /\ test' = clockCycle(test, out)
        /\ op' = [name |-> "clockCycle"]

Wait ==
    \E outs \in Outs(DefaultMaxCycles) :
        /\ test' = waitForExecution(test, DefaultMaxCycles, outs)
        /\ op' = [name |-> "waitForExecution", max_cycles |-> DefaultMaxCycles]

RunReset ==
    /\ pc = "reset"
    /\ CallReset
    /\ pc' = "basic_send"
    /\ UNCHANGED <<i, j, start_cycle, latencies>>
    /\ UNCHANGED <<stats, report>>
    /\ UNCHANGED bridgeVars

\* runBasicFunctionalTest
BasicSend ==
    /\ pc = "basic_send"
    /\ Send(test.symbol_codes[1], BasePrice, BaseVolume, MSG_ADD)
    /\ pc' = "basic_wait"
    /\ UNCHANGED <<i, j, start_cycle, latencies>>
    /\ UNCHANGED <<stats, report>>
    /\ UNCHANGED bridgeVars

\* a variant that gives up the run when the wait times out
BasicWait_abortsOnTimeout ==
    /\ pc = "basic_wait"
    /\ Wait
    /\ pc' = IF test'.dut.order_execution_valid = 1 THEN "basic_settle" ELSE "report"
    /\ j' = 0
    /\ UNCHANGED <<i, start_cycle, latencies>>
    /\ UNCHANGED <<stats, report>>
    /\ UNCHANGED bridgeVars

BasicWait ==
    /\ pc = "basic_wait"
    /\ Wait
    /\ pc' = "basic_settle"
    /\ j' = 0
    /\ UNCHANGED <<i, start_cycle, latencies>>
    /\ UNCHANGED <<stats, report>>
    /\ UNCHANGED bridgeVars

BasicSettle ==
    /\ pc = "basic_settle"
    /\ Clock
    /\ IF j + 1 < BasicSettleCycles
       THEN j' = j + 1 /\ UNCHANGED <<pc, i>>
       ELSE pc' = "multi_send" /\ i' = 0 /\ j' = 0
    /\ UNCHANGED <<start_cycle, latencies>>
    /\ UNCHANGED <<stats, report>>
    /\ UNCHANGED bridgeVars

\* runMultiSymbolTest
\* a variant that awaits a response to every symbol
MultiSend_waits ==
    /\ pc = "multi_send"
    /\ \E out \in {0, 1}, outs \in Outs(DefaultMaxCycles) :
          /\ test' = waitForExecution(
                         sendMarketData(test, test.symbol_codes[i + 1],
                                        Plus32Shifted24(BasePrice, i),
                                        Add(BaseVolume, ShiftL(Limbs(i, 2), 28)),
                                        MSG_ADD, out),
                         DefaultMaxCycles, outs)
          /\ op' = [name |-> "sendMarketData",
                    symbol_code |-> test.symbol_codes[i + 1],
                    price |-> Plus32Shifted24(BasePrice, i), msg_type |-> MSG_ADD]
    /\ pc' = "multi_delay"
    /\ j' = 0
    /\ UNCHANGED <<i, start_cycle, latencies>>
    /\ UNCHANGED <<stats, report>>
    /\ UNCHANGED bridgeVars

MultiSend ==
    /\ pc = "multi_send"
    /\ Send(test.symbol_codes[i + 1], Plus32Shifted24(BasePrice, i),
            Add(BaseVolume, ShiftL(Limbs(i, 2), 28)), MSG_ADD)
    /\ pc' = "multi_delay"
    /\ j' = 0
    /\ UNCHANGED <<i, start_cycle, latencies>>
    /\ UNCHANGED <<stats, report>>
    /\ UNCHANGED bridgeVars

\* a variant whose delay between symbols is one cycle
MultiDelay_oneCycle ==
    /\ pc = "multi_delay"
    /\ Clock
    /\ j' = 0
    /\ IF i + 1 < Len(symbols)
       THEN i' = i + 1 /\ pc' = "multi_send"
       ELSE i' = 0 /\ pc' = "hf_send"
    /\ UNCHANGED <<start_cycle, latencies>>
    /\ UNCHANGED <<stats, report>>
    /\ UNCHANGED bridgeVars

MultiDelay ==
    /\ pc = "multi_delay"
    /\ Clock
    /\ IF j + 1 < MultiDelayCycles
       THEN j' = j + 1 /\ UNCHANGED <<pc, i>>
       ELSE /\ j' = 0
            /\ IF i + 1 < Len(symbols)
               THEN i' = i + 1 /\ pc' = "multi_send"
               ELSE i' = 0 /\ pc' = "hf_send"
    /\ UNCHANGED <<start_cycle, latencies>>
    /\ UNCHANGED <<stats, report>>
    /\ UNCHANGED bridgeVars

\* runHighFrequencyTest.  The volume argument is computed in int in the
\* source (0x64000000 + (i % 100) * 0x01000000 overflows for i % 100 >= 28);
\* sendMarketData never reads it.
\* the loop of n ticks: "for (int i = 0; i < n; ++i)"
HFAdvanceOf(n) ==
    IF i + 1 < n
    THEN i' = i + 1 /\ pc' = "hf_send"
    ELSE i' = 0 /\ pc' = "lat_send"

\* a variant that clocks an idle cycle after every tick
HFSendOf_everyTick(n) ==
    /\ pc = "hf_send"
    /\ Send(test.symbol_codes[(i % Len(symbols)) + 1], Plus32(BasePrice, i % 1000),
            Plus32Shifted24(BaseVolume, i % 100), MSG_ADD)
    /\ pc' = "hf_process" /\ UNCHANGED i
    /\ UNCHANGED <<j, start_cycle, latencies>>
    /\ UNCHANGED <<stats, report>>
    /\ UNCHANGED bridgeVars

HFSendOf(n) ==
    /\ pc = "hf_send"
    /\ Send(test.symbol_codes[(i % Len(symbols)) + 1], Plus32(BasePrice, i % 1000),
            Plus32Shifted24(BaseVolume, i % 100), MSG_ADD)
    /\ IF i % HFProcessEvery = 0
       THEN pc' = "hf_process" /\ UNCHANGED i
       ELSE HFAdvanceOf(n)
    /\ UNCHANGED <<j, start_cycle, latencies>>
    /\ UNCHANGED <<stats, report>>
    /\ UNCHANGED bridgeVars

HFProcessOf(n) ==
    /\ pc = "hf_process"
    /\ Clock
    /\ HFAdvanceOf(n)
    /\ UNCHANGED <<j, start_cycle, latencies>>
    /\ UNCHANGED <<stats, report>>
    /\ UNCHANGED bridgeVars

\* the scaled-down burst of runAllTests
HFAdvance == HFAdvanceOf(HFTicks)
HFSend == HFSendOf(HFTicks)
HFProcess == HFProcessOf(HFTicks)

\* a variant that samples start_cycle after the injection
LatSend_startsAfterSend ==
    /\ pc = "lat_send"
    /\ Send(test.symbol_codes[1], Plus32(BasePrice, i), BaseVolume, MSG_ADD)
    /\ start_cycle' = test'.cycle_count
    /\ pc' = "lat_wait"
    /\ UNCHANGED <<i, j, latencies>>
    /\ UNCHANGED <<stats, report>>
    /\ UNCHANGED bridgeVars

\* runLatencyBenchmark
LatSend ==
    /\ pc = "lat_send"
    /\ start_cycle' = test.cycle_count
    /\ Send(test.symbol_codes[1], Plus32(BasePrice, i), BaseVolume, MSG_ADD)
    /\ pc' = "lat_wait"
    /\ UNCHANGED <<i, j, latencies>>
    /\ UNCHANGED <<stats, report>>
    /\ UNCHANGED bridgeVars

\* a variant that takes a sample from every pair
LatWait_alwaysSamples ==
    /\ pc = "lat_wait"
    /\ Wait
    /\ latencies' = Append(latencies, test'.cycle_count - start_cycle)
    /\ pc' = "lat_settle"
    /\ j' = 0
    /\ UNCHANGED <<i, start_cycle>>
    /\ UNCHANGED <<stats, report>>
    /\ UNCHANGED bridgeVars

LatWait ==
    /\ pc = "lat_wait"
    /\ Wait
    /\ latencies' = IF test'.dut.order_execution_valid = 1
                    THEN Append(latencies, test'.cycle_count - start_cycle)
                    ELSE latencies
    /\ pc' = "lat_settle"
    /\ j' = 0
    /\ UNCHANGED <<i, start_cycle>>
    /\ UNCHANGED <<stats, report>>
    /\ UNCHANGED bridgeVars

LatSettle ==
    /\ pc = "lat_settle"
    /\ Clock
    /\ IF j + 1 < LatencySettleCycles
       THEN j' = j + 1 /\ UNCHANGED <<pc, i>>
       ELSE /\ j' = 0
            /\ IF i + 1 < LatencyPairs
               THEN i' = i + 1 /\ pc' = "lat_send"
               ELSE i' = 0 /\ pc' = "lat_stats"
    /\ UNCHANGED <<start_cycle, latencies>>
    /\ UNCHANGED <<stats, report>>
    /\ UNCHANGED bridgeVars

\* a variant without the check for an empty sample set
LatencyStatistics_noEmptyCheck(samples) == Statistics(Sort(samples))

\* "Calculate statistics": if (!latencies.empty()) { sort; ... }
LatencyStatistics(samples) ==
    IF samples # <<>> THEN Statistics(Sort(samples)) ELSE NoStatistics

\* the vector is sorted in place when it is not empty
LatStatistics ==
    /\ pc = "lat_stats"
    /\ stats' = LatencyStatistics(latencies)
    /\ latencies' = Sort(latencies)
    /\ op' = [name |-> "statistics"]
    /\ pc' = "stress_send"
    /\ UNCHANGED <<test, i, j, start_cycle, report>>
    /\ UNCHANGED bridgeVars

\* runStressTest
\* a variant in which Execute takes precedence over Cancel
StressSendOf_executeFirst(n) ==
    /\ pc = "stress_send"
    /\ Send(test.symbol_codes[(i % Len(symbols)) + 1], Plus32(BasePrice, i % 10000),
            Plus32Shifted24(BaseVolume, i % 1000),
            IF i % 10 = 0 THEN MSG_EXECUTE
            ELSE IF i % 15 = 0 THEN MSG_CANCEL
            ELSE MSG_ADD)
    /\ IF i + 1 < n
       THEN i' = i + 1 /\ UNCHANGED pc
       ELSE i' = 0 /\ pc' = "report"
    /\ UNCHANGED <<j, start_cycle, latencies>>
    /\ UNCHANGED <<stats, report>>
    /\ UNCHANGED bridgeVars

\* the loop of n messages: "for (int i = 0; i < n; ++i)"; msg_type is
\* 0x41, overwritten by 0x45 if i % 10 == 0, then by 0x58 if i % 15 == 0
StressSendOf(n) ==
    /\ pc = "stress_send"
    /\ Send(test.symbol_codes[(i % Len(symbols)) + 1], Plus32(BasePrice, i % 10000),
            Plus32Shifted24(BaseVolume, i % 1000),
            IF i % 15 = 0 THEN MSG_CANCEL
            ELSE IF i % 10 = 0 THEN MSG_EXECUTE
            ELSE MSG_ADD)
    /\ IF i + 1 < n
       THEN i' = i + 1 /\ UNCHANGED pc
       ELSE i' = 0 /\ pc' = "report"
    /\ UNCHANGED <<j, start_cycle, latencies>>
    /\ UNCHANGED <<stats, report>>
    /\ UNCHANGED bridgeVars

\* the scaled-down stress run of runAllTests
StressSend == StressSendOf(StressMsgs)

generateReport ==
    /\ pc = "report"
    /\ report' = Report(test)
    /\ pc' = "done"
    /\ op' = [name |-> "generateReport"]
    /\ UNCHANGED <<test, i, j, start_cycle, latencies, stats>>
    /\ UNCHANGED bridgeVars

RunInit ==
    /\ \E p \in PortChoices : test = FPGATradingSystemTest(p)
    /\ op = [name |-> "FPGATradingSystemTest"]
    /\ pc = "reset"
    /\ i = 0
    /\ j = 0
    /\ start_cycle = 0
    /\ latencies = <<>>
    /\ stats = NoStatistics
    /\ report = NoReport
    /\ BridgeIdle

runAllTests ==
    \/ RunReset
    \/ BasicSend \/ BasicWait \/ BasicSettle
    \/ MultiSend \/ MultiDelay
    \/ HFSend \/ HFProcess
    \/ LatSend \/ LatWait \/ LatSettle \/ LatStatistics
    \/ StressSend
    \/ generateReport

RunNext == runAllTests

\* main(): one harness object running runAllTests
SpecRun == RunInit /\ [][RunNext]_vars


(***************************************************************************)
(* reset() followed by runHighFrequencyTest() with the loop count of the   *)
(* source                                                                  *)
(***************************************************************************)
\* "for (int i = 0; i < 10000; ++i)"
HFTickCount == 10000

\* reset(), then "uint64_t start_cycle = cycle_count" of runHighFrequencyTest
HFStart ==
    /\ pc = "reset"
    /\ CallReset
    /\ start_cycle' = test'.cycle_count
    /\ pc' = "hf_send"
    /\ UNCHANGED <<i, j, latencies, stats, report>>
    /\ UNCHANGED bridgeVars

HFSendAll == HFSendOf(HFTickCount)
HFProcessAll == HFProcessOf(HFTickCount)

runHighFrequencyTest == HFStart \/ HFSendAll \/ HFProcessAll

SpecHF == RunInit /\ [][runHighFrequencyTest]_vars


(***************************************************************************)
(* reset() followed by runStressTest() with the loop count of the source   *)
(***************************************************************************)
\* "for (int i = 0; i < 50000; ++i)"
StressMsgCount == 50000

StressStart ==
    /\ pc = "reset"
    /\ CallReset
    /\ pc' = "stress_send"
    /\ UNCHANGED <<i, j, start_cycle, latencies, stats, report>>
    /\ UNCHANGED bridgeVars

StressSendAll == StressSendOf(StressMsgCount)

runStressTest == StressStart \/ StressSendAll

SpecStress == RunInit /\ [][runStressTest]_vars


(***************************************************************************)
(* sendMarketData with any entity code, price and message kind             *)
(***************************************************************************)
\* bound of the exploration
MaxSends == 2

\* 32-bit patterns offered as code and as price: 0, 1, 0x7FFFFFFF,
\* 0x80000000, 0xFFFFFFFF, the base price 0x96000000 and the code of AAPL
Words32 == {Zero32, One32, <<65535, 32767>>, <<0, 32768>>, Ones32, BasePrice,
            initializeSymbolCodes[1]}
MsgTypes == {MSG_ADD, MSG_EXECUTE, MSG_CANCEL}

SendAny ==
    /\ test.total_ticks < MaxSends
    /\ \E c \in Words32, p \in Words32, msg_type \in MsgTypes :
           Send(c, p, BaseVolume, msg_type)
    /\ UNCHANGED <<pc, i, j, start_cycle, latencies, stats, report>>
    /\ UNCHANGED bridgeVars

SendNext == SendAny

SpecSend == TestInit /\ [][SendNext]_vars


(***************************************************************************)
(* The statistics block of runLatencyBenchmark on sample sets of any       *)
(* content                                                                 *)
(***************************************************************************)
\* bounds of the sample sets tried in full: every arrival order of up to
\* MaxSamples latencies in 1..MaxLatency
MaxSamples == 4
MaxLatency == 3

\* "Measure latency for 1000 individual transactions": the most samples
\* the source can collect
BenchmarkPairs == 1000

\* the latency set of the scenario, in an arrival order
ExampleSamples == <<5, 2, 9, 4, 7, 4, 5, 4>>

\* larger sets, where the P95 and P99 positions leave the last element
LongSizes == {20, 21, 100, 101}
LongSamples(n) == [k \in 1..n |-> ((k * 7) % 11) + 1]

SampleSets ==
    UNION {[1..n -> 1..MaxLatency] : n \in 0..MaxSamples}
        \cup {ExampleSamples}
        \cup {LongSamples(n) : n \in LongSizes}

\* runLatencyBenchmark at "Calculate statistics" with any of the sample sets
StatsInit ==
    /\ test = FPGATradingSystemTest([bit |-> 0, out |-> 0])
    /\ op = [name |-> "FPGATradingSystemTest"]
    /\ pc = "lat_stats"
    /\ i = 0
    /\ j = 0
    /\ start_cycle = 0
    /\ latencies \in SampleSets
    /\ stats = NoStatistics
    /\ report = NoReport
    /\ BridgeIdle

StatsNext == LatStatistics

SpecStats == StatsInit /\ [][StatsNext]_vars


(***************************************************************************)
(* Properties                                                              *)
(***************************************************************************)
Accumulators(t) == <<t.total_executions, t.total_latency, t.min_latency, t.max_latency>>

\* C1: a waitForExecution(max_cycles) call that ends with
\* order_execution_valid deasserted (the device asserted it at no check of
\* the loop) ran exactly max_cycles clock cycles (2 evaluations each),
\* advanced cycle_count by exactly max_cycles and recorded no response:
\* total_executions, total_latency, min_latency, max_latency are unchanged.
C1_TimeoutTakesExactlyMaxCycles ==
    [][(op'.name = "waitForExecution" /\ test'.dut.order_execution_valid = 0)
        => /\ test'.cycle_count = test.cycle_count + op'.max_cycles
           /\ test'.trace.evals = test.trace.evals + 2 * op'.max_cycles
           /\ test'.trace.edges = test.trace.edges + op'.max_cycles
           /\ Accumulators(test') = Accumulators(test)]_vars

\* a full-length wait timed out after an earlier response had been recorded
C1_Witness ==
    /\ op.name = "waitForExecution"
    /\ op.max_cycles = MaxCycles
    /\ test.dut.order_execution_valid = 0
    /\ test.total_executions > 0

\* C2: every latency recorded by waitForExecution in runAllTests is
\* positive and at most the wait bound, so once a response was recorded
\* 1 <= min_latency and max_latency <= max_cycles.
C2_RecordedLatencyPositive ==
    test.total_executions > 0
        => (1 <= test.min_latency /\ test.max_latency <= DefaultMaxCycles)

\* C3: a successful hjb_calculate returns the bid and ask of its own
\* mid_price and inventory: bid = m - (inv << 10) - (m >> 8),
\* ask = m - (inv << 10) + (m >> 8) on the 64-bit patterns.
ReservationOf(m, inv) == Sub(m, ShiftL(ZeroExt(FromInt32(inv), 4), 10))
C3_ResultOfThisCall ==
    (call.fn = "hjb_calculate" /\ call.status = 0)
        => /\ result.bid = Sub(ReservationOf(call.mid_price, call.inventory),
                               ShiftR(call.mid_price, 8))
           /\ result.ask = Add(ReservationOf(call.mid_price, call.inventory),
                               ShiftR(call.mid_price, 8))

\* C4: in runAllTests the number of rising edges sampled with
\* market_data_valid = 1 always equals total_ticks; every sendMarketData
\* adds exactly one such edge, which carries the word (symbol code in the
\* high 32 bits, price in the low 32 bits) and the kind of that event, and
\* no other operation adds one.
C4_OneValidEdgePerEvent ==
    [][/\ test'.trace.validEdges = test'.total_ticks
       /\ op'.name = "sendMarketData"
            => /\ test'.trace.validEdges = test.trace.validEdges + 1
               /\ test'.trace.lastValid =
                      << <<op'.price[1], op'.price[2],
                           op'.symbol_code[1], op'.symbol_code[2]>>,
                         op'.msg_type >>
       /\ op'.name # "sendMarketData"
            => test'.trace.validEdges = test.trace.validEdges]_vars

\* all events of all scenarios were injected, the last ones back to back
C4_Witness ==
    /\ pc = "report"
    /\ test.total_ticks = 1 + Len(symbols) + HFTicks + LatencyPairs + StressMsgs
    /\ test.trace.validEdges = test.total_ticks

\* C5: every sendMarketData call advances cycle_count by exactly 1 and
\* total_ticks by exactly 1, returns with market_data_valid = 0 and leaves
\* total_executions, total_latency, min_latency and max_latency unchanged,
\* whatever the device outputs.
C5_SendFrame ==
    [][op'.name = "sendMarketData"
        => /\ test'.cycle_count = test.cycle_count + 1
           /\ test'.total_ticks = test.total_ticks + 1
           /\ test'.dut.market_data_valid = 0
           /\ Accumulators(test') = Accumulators(test)]_vars

\* an injection during which the device asserted its output, after a
\* response had been recorded
C5_Witness ==
    /\ op.name = "sendMarketData"
    /\ test.dut.order_execution_valid = 1
    /\ test.total_executions > 0

\* C6: reset() presents exactly 5 rising edges with rst_n = 0 and all
\* inputs zero, then exactly one with rst_n = 1 and market_data_valid = 0;
\* in runAllTests no rising edge with market_data_valid = 1 occurs before
\* reset() has completed, and none occurs while rst_n = 0.
C6_ResetProtocol ==
    [][/\ op'.name = "reset"
            => /\ test'.cycle_count = test.cycle_count + ResetHoldCycles + 1
               /\ test'.trace.edges = test.trace.edges + ResetHoldCycles + 1
               /\ test'.trace.lowEdges = test.trace.lowEdges + ResetHoldCycles
               /\ test'.trace.lowDirty = test.trace.lowDirty
               /\ test'.trace.validEdges = test.trace.validEdges
               /\ test'.trace.lastEdge.rst_n = 1
               /\ test'.trace.lastEdge.market_data_valid = 0
       /\ test'.trace.validEdges > 0 => pc \notin {"reset"}
       /\ ~test'.trace.validInReset]_vars

\* reset() has run on a device whose inputs were not zero at construction
C6_Witness ==
    /\ pc = "basic_send"
    /\ op.name = "reset"
    /\ test.cycle_count = ResetHoldCycles + 1
    /\ test.trace.lowEdges = ResetHoldCycles
    /\ test.trace.evalClks = <<0, 1>>
    /\ test.dut.market_data_in = Zero64

\* C7: each clockCycle call evaluates the device exactly twice, first with
\* clk = 0 and then with clk = 1 (one rising edge), ends with clk = 1 and
\* adds exactly 1 to cycle_count; cycle_count never decreases and changes
\* only by the clock cycles performed (2 evaluations and 1 rising edge per
\* unit).
C7_ClockCycle ==
    [][/\ test'.cycle_count >= test.cycle_count
       /\ test'.trace.evals - test.trace.evals
              = 2 * (test'.cycle_count - test.cycle_count)
       /\ test'.trace.edges - test.trace.edges
              = test'.cycle_count - test.cycle_count
       /\ op'.name = "clockCycle"
            => /\ test'.cycle_count = test.cycle_count + 1
               /\ test'.trace.evals = test.trace.evals + 2
               /\ test'.trace.evalClks = <<0, 1>>
               /\ test'.dut.clk = 1]_vars

\* a clockCycle call on a harness that has already been clocked
C7_Witness ==
    /\ op.name = "clockCycle"
    /\ test.cycle_count > 1
    /\ test.trace.evals = 2 * test.cycle_count

\* C8: hjb_calculate without a live handle returns a failure status and
\* changes nothing (no handle, no instance, main_time and *result as
\* before); a hjb_calculate on a live handle succeeds also after such
\* failures.
C8_MisuseFailsThatCallOnly ==
    [][/\ (hjb_module = NULL /\ call'.fn = "hjb_calculate")
            => /\ call'.status # 0
               /\ hjb_module' = NULL
               /\ heap' = heap
               /\ main_time' = main_time
               /\ result' = result
       /\ (hjb_module # NULL /\ misused > 0 /\ call'.fn = "hjb_calculate")
            => call'.status = 0]_vars

\* a calculation succeeded after an earlier one was refused
C8_Witness ==
    /\ misused > 0
    /\ call.fn = "hjb_calculate"
    /\ call.status = 0
    /\ result # UnwrittenResult

\* C9: hjb_init always returns 0 and leaves exactly one live handle; on a
\* live handle it changes nothing: the handle, the device (all signals and
\* the FSM state) and main_time are as before.
C9_InitIdempotent ==
    [][call'.fn = "hjb_init"
        => /\ call'.status = 0
           /\ hjb_module' # NULL
           /\ DOMAIN heap' = {hjb_module'}
           /\ hjb_module # NULL
                => /\ hjb_module' = hjb_module
                   /\ heap' = heap
                   /\ main_time' = main_time]_vars

\* hjb_init called on a live handle whose device is in the done state
C9_Witness ==
    /\ call.fn = "hjb_init"
    /\ hjb_module # NULL
    /\ heap[hjb_module].state = 4
    /\ heap[hjb_module].calculation_done = 1

\* C10: at most one device instance is live and it is the one hjb_module
\* points to; hjb_cleanup leaves no handle and no instance (a no-op without
\* a handle); hjb_init without a handle creates an instance and resets it:
\* the device is idle with calculation_done = 0 and main_time advanced by
\* the 5 toggles of the reset sequence.
C10_SingleInstance ==
    [][/\ Cardinality(DOMAIN heap') <= 1
       /\ DOMAIN heap' = (IF hjb_module' = NULL THEN {} ELSE {hjb_module'})
       /\ call'.fn = "hjb_cleanup"
            => /\ hjb_module' = NULL
               /\ hjb_module = NULL => heap' = heap
               /\ main_time' = main_time
       /\ (call'.fn = "hjb_init" /\ hjb_module = NULL)
            => /\ main_time' = main_time + ResetToggles
               /\ heap'[hjb_module'].state = 0
               /\ heap'[hjb_module'].calculation_done = 0
               /\ heap'[hjb_module'].cycle_counter = Zero32
               /\ heap'[hjb_module'].calculate_en = 0
               /\ heap'[hjb_module'].rst_n = 1]_vars

\* hjb_init after a calculation and a cleanup: the new device is idle
C10_Witness ==
    /\ call.fn = "hjb_init"
    /\ result # UnwrittenResult
    /\ hjb_module # NULL
    /\ heap[hjb_module].calculation_done = 0
    /\ heap[hjb_module].state = 0

RisingEdges(clk0, n) == Cardinality({k \in 1..n : (clk0 + k) % 2 = 1})

C13_EnableAfterCall ==
    [][(call'.fn = "hjb_calculate" /\ hjb_module # NULL)
        => IF call'.status = 0
           THEN heap'[hjb_module].calculate_en = 0
           ELSE /\ heap'[hjb_module].calculate_en = 1
                /\ result' = result]_vars

\* a call timed out after the full 1000 passes of the clocking loop, on a
\* device that had computed a bid and an ask
C13_Witness ==
    /\ call.fn = "hjb_calculate"
    /\ call.status = -1
    /\ hjb_module # NULL
    /\ heap[hjb_module].calculate_en = 1
    /\ heap[hjb_module].optimal_bid # Zero64
    /\ result = UnwrittenResult
    /\ main_time = ResetToggles + CalcTimeout

\* C14: the first hjb_calculate on an instance that hjb_init has just made,
\* with mid_price 150.0 (pattern m), inventory 0 and volatility 0.02,
\* returns 0 before the 1000 bound of the clocking loop is used up, with
\* bid < m < ask as unsigned 64-bit patterns and latency_ns a multiple of 4.
C14_FirstPricing ==
    [][(/\ call.fn = "hjb_init"
        /\ call.created
        /\ call'.fn = "hjb_calculate"
        /\ call'.mid_price = Mid150
        /\ call'.inventory = 0
        /\ call'.volatility = Vol002)
        => /\ call'.status = 0
           /\ main_time' - main_time < CalcTimeout
           /\ Lt(result'.bid, Mid150)
           /\ Lt(Mid150, result'.ask)
           /\ result'.latency_ns[1] % 4 = 0]_vars

\* the scenario itself: hjb_init, then the request for 150.0 answered with
\* bid = m - (m >> 8), ask = m + (m >> 8) after 4 device cycles (16 ns)
C14_Witness ==
    /\ ncalls = 2
    /\ call.fn = "hjb_calculate"
    /\ call.status = 0
    /\ call.mid_price = Mid150
    /\ call.inventory = 0
    /\ call.volatility = Vol002
    /\ result.bid = Sub(Mid150, ShiftR(Mid150, 8))
    /\ result.ask = Add(Mid150, ShiftR(Mid150, 8))
    /\ result.latency_ns = Limbs(16, 2)

\* C15: right after hjb_init has made and reset an instance, whatever its
\* registers held at construction: calculation_done = 0, cycle_counter = 0,
\* latency_cycles = 0, state = 0 (idle), optimal_bid = optimal_ask = 0.
C15_ResetDeterminism ==
    [][(call'.fn = "hjb_init" /\ hjb_module = NULL)
        => /\ heap'[hjb_module'].calculation_done = 0
           /\ heap'[hjb_module'].cycle_counter = Zero32
           /\ heap'[hjb_module'].latency_cycles = Zero32
           /\ heap'[hjb_module'].state = 0
           /\ heap'[hjb_module'].optimal_bid = Zero64
           /\ heap'[hjb_module'].optimal_ask = Zero64]_vars

\* an instance whose registers were all ones at construction (the ones the
\* reset does not write still are) has been reset
C15_Witness ==
    /\ call.fn = "hjb_init"
    /\ call.created
    /\ heap[hjb_module].reservation_price = Ones64
    /\ heap[hjb_module].spread = Ones64
    /\ heap[hjb_module].optimal_bid = Zero64
    /\ heap[hjb_module].latency_cycles = Zero32
    /\ heap[hjb_module].calculation_done = 0

Count(s, v) == Cardinality({n \in 1..Len(s) : s[n] = v})
Values(s) == {s[n] : n \in 1..Len(s)}

RECURSIVE Total(_, _)
\* the sum of the elements of s that are in the set vs
Total(s, vs) ==
    IF vs = {} THEN 0
    ELSE LET v == CHOOSE x \in vs : TRUE
         IN v * Count(s, v) + Total(s, vs \ {v})

\* C16: for every non-empty sample set of size N the statistics block
\* leaves the samples in ascending order (the same samples) and reports
\* min = samples[0], max = samples[N-1], P50 = samples[N div 2],
\* P95 = samples[floor(0.95 N)], P99 = samples[floor(0.99 N)], every index
\* below N, and the mean as sum / N; for {2,4,4,4,5,5,7,9}: mean 5, P50
\* index 4 with value 5, min 2, max 9.  The two percentile positions are
\* floor(0.95 N) and floor(0.99 N) for every size the benchmark can collect.
C16_Statistics ==
    [][(pc = "lat_stats" /\ latencies # <<>>)
        => LET N == Len(latencies)
               sorted == latencies'
               st == stats'
           IN /\ st.computed
              /\ \A n \in 1..BenchmarkPairs :
                     /\ SizeTimes(n, Significand95) = (95 * n) \div 100
                     /\ SizeTimes(n, Significand99) = (99 * n) \div 100
              /\ Len(sorted) = N
              /\ \A k \in 1..(N - 1) : sorted[k] <= sorted[k + 1]
              /\ \A v \in Values(latencies) \cup Values(sorted) :
                     Count(sorted, v) = Count(latencies, v)
              /\ st.min = sorted[1]
              /\ st.max = sorted[N]
              /\ st.p50_index = N \div 2
              /\ st.p95_index = (95 * N) \div 100
              /\ st.p99_index = (99 * N) \div 100
              /\ st.p50_index < N /\ st.p95_index < N /\ st.p99_index < N
              /\ st.p50_latency = sorted[st.p50_index + 1]
              /\ st.p95_latency = sorted[st.p95_index + 1]
              /\ st.p99_latency = sorted[st.p99_index + 1]
              /\ st.avg_latency = [num |-> Total(latencies, Values(latencies)), den |-> N]
              /\ latencies = ExampleSamples
                    => /\ st.avg_latency.num = 5 * st.avg_latency.den
                       /\ st.p50_index = 4
                       /\ st.p50_latency = 5
                       /\ st.min = 2
                       /\ st.max = 9]_vars

\* the statistics of the scenario's set have been computed
C16_Witness ==
    /\ op.name = "statistics"
    /\ latencies = <<2, 4, 4, 4, 5, 5, 7, 9>>
    /\ stats.computed
    /\ stats.avg_latency = [num |-> 40, den |-> 8]
    /\ stats.p50_latency = 5

Stage(p) ==
    CASE p = "reset" -> 0
      [] p \in {"basic_send", "basic_wait", "basic_settle"} -> 1
      [] p \in {"multi_send", "multi_delay"} -> 2
      [] p \in {"hf_send", "hf_process"} -> 3
      [] p \in {"lat_send", "lat_wait", "lat_settle", "lat_stats"} -> 4
      [] p = "stress_send" -> 5
      [] p = "report" -> 6
      [] p = "done" -> 7

\* the place of a position inside one pass of its scenario's loop
StepInPass(p) ==
    CASE p \in {"basic_wait", "multi_delay", "hf_process", "lat_wait"} -> 1
      [] p \in {"basic_settle", "lat_settle"} -> 2
      [] p = "lat_stats" -> 3
      [] OTHER -> 0

\* above every loop index of the run
Radix == BasicSettleCycles + HFTicks + LatencyPairs + StressMsgs + 1

\* how far the run has come: scenario, pass of its loop, statement of the
\* pass, pass of the inner settle loop (the statistics come after the last
\* pass of the benchmark loop)
Progress ==
    ((Stage(pc) * Radix + (IF pc = "lat_stats" THEN Radix - 1 ELSE i)) * Radix
        + StepInPass(pc)) * Radix + j

\* the events runAllTests injects when nothing is skipped
AllTicks == 1 + Len(symbols) + HFTicks + LatencyPairs + StressMsgs

\* C18: whatever the device does with order_execution_valid, runAllTests
\* ends: every step moves the run strictly forward through a bounded
\* sequence of positions (reset, the five scenarios one after the other,
\* the report) whose last one is the end; every waitForExecution advances
\* at most max_cycles cycles; and at the end every injection of every
\* scenario has been made and the report printed, whichever waits timed
\* out.
C18_RunTerminates ==
    /\ [][/\ Progress' > Progress
          /\ Stage(pc') \in {Stage(pc), Stage(pc) + 1}
          /\ op'.name = "waitForExecution"
               => test'.cycle_count - test.cycle_count <= op'.max_cycles]_vars
    /\ [](Progress <= Stage("done") * Radix * Radix * Radix)
    /\ [](pc = "done" => (test.total_ticks = AllTicks /\ report.printed))

\* the end of a run in which every wait timed out: each wait took its full
\* DefaultMaxCycles and every event was still injected
C18_Witness ==
    /\ pc = "done"
    /\ test.total_executions = 0
    /\ test.total_ticks = AllTicks
    /\ test.cycle_count =
           (ResetHoldCycles + 1)
           + (1 + DefaultMaxCycles + BasicSettleCycles)
           + Len(symbols) * (1 + MultiDelayCycles)
           + (HFTicks + ((HFTicks - 1) \div HFProcessEvery) + 1)
           + LatencyPairs * (1 + DefaultMaxCycles + LatencySettleCycles)
           + StressMsgs

\* C19: in runAllTests the first injection of the second, third, fourth
\* and fifth scenario comes after an idle clock cycle: the last rising
\* edge before it was sampled with market_data_valid = 0.
C19_SettleBetweenScenarios ==
    [][(/\ pc \in {"multi_send", "hf_send", "lat_send", "stress_send"}
        /\ i = 0
        /\ op'.name = "sendMarketData")
        => test.trace.lastEdge.market_data_valid = 0]_vars

\* C20: sendMarketData(c, p, volume, kind) presents exactly one rising edge
\* with market_data_valid = 1, and at that edge market_data_in is the word
\* with c in bits 63..32 and p in bits 31..0 and market_data_type is kind.
C20_WordLayout ==
    [][op'.name = "sendMarketData"
        => /\ test'.trace.validEdges = test.trace.validEdges + 1
           /\ LET word == test'.trace.lastValid[1]
              IN /\ <<word[3], word[4]>> = op'.symbol_code
                 /\ <<word[1], word[2]>> = op'.price
                 /\ ShiftR(word, 32) = ZeroExt(op'.symbol_code, 4)
           /\ test'.trace.lastValid[2] = op'.msg_type]_vars

\* an Execute event with code 0x80000000 and price 0xFFFFFFFF was injected
C20_Witness ==
    /\ op.name = "sendMarketData"
    /\ op.symbol_code = <<0, 32768>>
    /\ op.price = Ones32
    /\ op.msg_type = MSG_EXECUTE
    /\ test.trace.lastValid = << <<65535, 65535, 0, 32768>>, MSG_EXECUTE >>
    /\ test.total_ticks = MaxSends

\* C21: the code the harness holds for each configured symbol has character
\* i of the symbol in bits 31-8i..24-8i (i < min(length, 4)) and equals the
\* code the generator's table gives the symbol of the same name.
C21_SymbolCodes ==
    \A k \in 1..Len(symbols) :
        /\ \A c \in 0..(Min(Len(symbols[k]), 4) - 1) :
               ShiftR(ZeroExt(test.symbol_codes[k], 4), 24 - 8 * c)[1] % 256
                   = symbols[k][c + 1]
        /\ \A g \in 1..Len(initializeSymbols) :
               initializeSymbols[g].name = symbols[k]
                   => test.symbol_codes[k] = initializeSymbols[g].code

\* C22: whatever operation the caller runs, cycle_count, total_ticks,
\* total_executions, total_latency and max_latency do not decrease and
\* min_latency does not increase; reset() leaves the five statistics where
\* they were and advances cycle_count by its 5 + 1 cycles.
C22_MonotoneCounters ==
    [][/\ test'.cycle_count >= test.cycle_count
       /\ test'.total_ticks >= test.total_ticks
       /\ test'.total_executions >= test.total_executions
       /\ test'.total_latency >= test.total_latency
       /\ test'.max_latency >= test.max_latency
       /\ test'.min_latency <= test.min_latency
       /\ op'.name = "reset"
            => /\ test'.total_ticks = test.total_ticks
               /\ test'.total_executions = test.total_executions
               /\ test'.total_latency = test.total_latency
               /\ test'.max_latency = test.max_latency
               /\ test'.min_latency = test.min_latency
               /\ test'.cycle_count = test.cycle_count + ResetHoldCycles + 1]_vars

\* reset() was called in the middle of a session that had injected events
\* and measured a response of positive latency
C22_Witness ==
    /\ op.name = "reset"
    /\ test.total_ticks > 0
    /\ test.total_executions > 0
    /\ test.total_latency > 0
    /\ test.max_latency > 0
    /\ test.min_latency < UINT64_MAX
    /\ test.cycle_count > ResetHoldCycles + 1

\* C23: in every state of the harness, with no response recorded
\* total_latency = 0, max_latency = 0 and min_latency = UINT64_MAX; with
\* responses recorded min_latency <= max_latency and total_latency lies
\* between total_executions * min_latency and total_executions *
\* max_latency.  A waitForExecution that ends with order_execution_valid
\* asserted adds 1 to total_executions and the cycles it ran to
\* total_latency.
C23_AccumulatorsConsistent ==
    /\ [](/\ test.total_executions = 0
              => /\ test.total_latency = 0
                 /\ test.max_latency = 0
                 /\ test.min_latency = UINT64_MAX
          /\ test.total_executions > 0
              => /\ test.min_latency <= test.max_latency
                 /\ test.total_executions * test.min_latency <= test.total_latency
                 /\ test.total_latency <= test.total_executions * test.max_latency)
    /\ [][(op'.name = "waitForExecution" /\ test'.dut.order_execution_valid = 1)
            => /\ test'.total_executions = test.total_executions + 1
               /\ test'.total_latency
                    = test.total_latency + (test'.cycle_count - test.cycle_count)]_vars

\* two responses of different latencies were recorded
C23_Witness ==
    /\ op.name = "waitForExecution"
    /\ test.total_executions = 2
    /\ test.min_latency < test.max_latency
    /\ test.total_executions * test.min_latency < test.total_latency
    /\ test.total_latency < test.total_executions * test.max_latency

\* the number of indices below k that are multiples of 100
ProcessedBefore(k) == (k + HFProcessEvery - 1) \div HFProcessEvery
\* counters at each position of the burst
BurstPositions ==
    /\ pc = "hf_send"
         => /\ test.total_ticks = i
            /\ test.cycle_count = start_cycle + i + ProcessedBefore(i)
    /\ pc = "hf_process"
         => /\ i % 100 = 0
            /\ test.total_ticks = i + 1
            /\ test.cycle_count = start_cycle + i + 1 + ProcessedBefore(i)
    /\ pc = "lat_send"
         => /\ test.total_ticks = 10000
            /\ test.cycle_count = start_cycle + 10100
\* one step of the burst
BurstStep ==
    /\ pc = "hf_send"
         => /\ test'.cycle_count = test.cycle_count + 1
            /\ test'.trace.edges = test.trace.edges + 1
            /\ test'.total_ticks = test.total_ticks + 1
            /\ test'.trace.lastEdge.market_data_valid = 1
            /\ (pc' = "hf_process") <=> (i % 100 = 0)
    /\ pc = "hf_process"
         => /\ test'.cycle_count = test.cycle_count + 1
            /\ test'.trace.edges = test.trace.edges + 1
            /\ test'.total_ticks = test.total_ticks
            /\ test'.trace.lastEdge.market_data_valid = 0
\* C24: runHighFrequencyTest injects 10,000 events, one clock cycle each,
\* and clocks one idle cycle after the injections with i mod 100 = 0 and
\* after no other: before tick i, total_ticks has grown by i and
\* cycle_count by i + ceil(i / 100); at the end by 10,000 and 10,100.
C24_BurstCycles == []BurstPositions /\ [][BurstStep]_vars

\* the burst has ended, with the device output asserted at its last cycle
C24_Witness ==
    /\ pc = "lat_send"
    /\ op.name = "sendMarketData"
    /\ test.total_ticks = HFTickCount
    /\ test.cycle_count = start_cycle + 10100
    /\ test.dut.order_execution_valid = 1

\* one step of runLatencyBenchmark
PairStep ==
    /\ pc = "lat_send"
         => /\ latencies' = latencies
            /\ test'.total_executions = test.total_executions
            /\ pc' = "lat_wait"
    /\ pc = "lat_wait"
         => /\ Len(latencies') - Len(latencies)
                 = test'.total_executions - test.total_executions
            /\ IF test'.dut.order_execution_valid = 1
               THEN Len(latencies') = Len(latencies) + 1
               ELSE latencies' = latencies
            /\ pc' = "lat_settle" /\ j' = 0
    /\ pc = "lat_settle"
         => /\ latencies' = latencies
            /\ test'.total_executions = test.total_executions
            /\ test'.cycle_count = test.cycle_count + 1
            /\ test'.total_ticks = test.total_ticks
            /\ test'.trace.lastEdge.market_data_valid = 0
            /\ IF j < 4 THEN pc' = "lat_settle" /\ j' = j + 1
               ELSE pc' \in {"lat_send", "lat_stats"}
    /\ pc = "lat_stats"
         => /\ test'.total_executions = test.total_executions
            /\ stats'.computed <=> (latencies # <<>>)
            /\ stats'.computed => stats'.avg_latency.den = Len(latencies)
\* positions of runLatencyBenchmark
PairPositions ==
    /\ pc = "lat_send" => Len(latencies) <= i
    /\ pc \in {"lat_wait", "lat_settle"} => Len(latencies) <= i + 1
    /\ pc = "lat_settle" => j \in 0..4
    /\ pc = "lat_stats" => Len(latencies) <= LatencyPairs
\* C25: in runLatencyBenchmark a pair adds one sample if
\* order_execution_valid is asserted when its wait returns and none
\* otherwise, and the wait adds as much to total_executions; nothing else
\* in the scenario changes either, so the statistics are computed over as
\* many samples as total_executions grew; every wait, answered or not, is
\* followed by 5 idle clock cycles.
C25_OneSamplePerResponse == []PairPositions /\ [][PairStep]_vars

\* the benchmark ended with one pair answered and one pair timed out
C25_Witness ==
    /\ pc = "stress_send"
    /\ op.name = "statistics"
    /\ stats.computed
    /\ stats.avg_latency.den = 1
    /\ Len(latencies) = 1
    /\ test.dut.order_execution_valid = 0

\* one step of runMultiSymbolTest, runHighFrequencyTest or runStressTest
ThroughputStep ==
    /\ pc \in {"multi_send", "multi_delay", "hf_send", "hf_process", "stress_send"}
         => /\ Accumulators(test') = Accumulators(test)
            /\ test'.symbol_codes = test.symbol_codes
            /\ test'.cycle_count = test.cycle_count + 1
            /\ latencies' = latencies
    /\ pc \in {"multi_send", "hf_send", "stress_send"}
         => test'.total_ticks = test.total_ticks + 1
    /\ pc \in {"multi_delay", "hf_process"}
         => test'.total_ticks = test.total_ticks
    /\ pc = "multi_send" => (pc' = "multi_delay" /\ j' = 0)
    /\ pc = "multi_delay"
         => IF j < 4 THEN pc' = "multi_delay" /\ j' = j + 1 /\ i' = i
            ELSE \/ pc' = "multi_send" /\ i' = i + 1 /\ i' < Len(symbols)
                 \/ pc' = "hf_send" /\ i + 1 = Len(symbols)
    /\ pc = "stress_send" => pc' \in {"stress_send", "report"}
\* C26: every step of runMultiSymbolTest, runHighFrequencyTest and
\* runStressTest leaves total_executions, total_latency, min_latency and
\* max_latency as they were, whatever the device outputs; each injection
\* advances cycle_count and total_ticks by one, each idle cycle cycle_count
\* by one; the sweep runs one injection and 5 idle cycles for each
\* configured symbol and the stress run nothing but injections.
C26_NoLatencyMeasured == [][ThroughputStep]_vars

\* the device asserted its output during the stress run of a session in
\* which no response was ever recorded
C26_Witness ==
    /\ pc = "report"
    /\ test.dut.order_execution_valid = 1
    /\ Accumulators(test) = <<0, 0, UINT64_MAX, 0>>
    /\ test.total_ticks = AllTicks

\* the kind of the k-th stress event as the claim gives it
KindOf(k) == IF k % 15 = 0 THEN 88 ELSE IF k % 10 = 0 THEN 69 ELSE 65
\* Add, Execute, Cancel, Delete
StableKinds == {65, 69, 88, 68}
\* the injection of the stress event of index i
StressStep ==
    pc = "stress_send"
        => /\ i \in 0..49999
           /\ test.total_ticks = i
           /\ op'.name = "sendMarketData"
           /\ op'.msg_type = KindOf(i)
           /\ test'.trace.validEdges = test.trace.validEdges + 1
           /\ test'.trace.lastValid[2] = KindOf(i)
           /\ test'.trace.lastValid[2] \in StableKinds
           /\ (pc' = "report") <=> (i = 49999)
\* C27: the i-th event of runStressTest, i = 0..49,999, is presented with
\* kind 0x58 if i mod 15 = 0, else 0x45 if i mod 10 = 0, else 0x41, and
\* the kind sampled at each rising edge with market_data_valid = 1 is one
\* of 0x41, 0x45, 0x58, 0x44.
C27_StressKinds == [][StressStep]_vars

\* event 30, a multiple of both 10 and 15, was presented as a Cancel
C27_Witness ==
    /\ pc = "stress_send"
    /\ i = 31
    /\ op.name = "sendMarketData"
    /\ op.msg_type = MSG_CANCEL
    /\ test.trace.lastValid[2] = 88

\* C28: with the verilated device, a hjb_calculate on a live handle
\* returns 0 after at most 10 clock toggles, whatever calls came before;
\* on an instance on which hjb_init was the last call and no calculation
\* has run, it takes exactly 10 toggles and reports latency_cycles = 4,
\* latency_ns = 16.
C28_NeverTimesOut ==
    [][(call'.fn = "hjb_calculate" /\ hjb_module # NULL)
        => /\ call'.status = 0
           /\ main_time' - main_time <= 10
           /\ <<"timeout", -1>> \notin seen'
           /\ (call.fn = "hjb_init" /\ heap[hjb_module].calculation_done = 0)
                => /\ main_time' - main_time = 10
                   /\ RisingEdges(heap[hjb_module].clk, 10) = 5
                   /\ heap'[hjb_module].latency_cycles = Limbs(4, 2)
                   /\ result'.latency_ns = Limbs(16, 2)]_vars

\* the first calculation on a second instance, made after a cleanup that
\* followed an earlier calculation
C28_Witness ==
    /\ call.fn = "hjb_calculate"
    /\ call.status = 0
    /\ ncalls = 5
    /\ main_time = 2 * ResetToggles + 2 * 10
    /\ result.latency_ns = Limbs(16, 2)

\* a toggle that is a rising edge of clk with rst_n high
RisingEdge ==
    /\ hjb_module # NULL
    /\ hjb_module' = hjb_module
    /\ heap[hjb_module].clk = 0
    /\ heap'[hjb_module].clk = 1
    /\ heap'[hjb_module].rst_n = 1
\* optimal_bid, optimal_ask and latency_cycles of the instance
Outputs(h) == <<h[hjb_module].optimal_bid, h[hjb_module].optimal_ask,
                h[hjb_module].latency_cycles>>
\* states 0..4 only; the done state is left only when calculate_en is
\* sampled low; in idle calculation_done is cleared
HandshakeStep ==
    /\ hjb_module # NULL => heap[hjb_module].state \in 0..4
    /\ RisingEdge
         => /\ (heap[hjb_module].state = 4 /\ heap'[hjb_module].state # 4)
                 => /\ heap'[hjb_module].calculate_en = 0
                    /\ heap'[hjb_module].state = 0
                    /\ heap'[hjb_module].calculation_done = 1
            /\ heap[hjb_module].state = 0 => heap'[hjb_module].calculation_done = 0
\* C29: after reset only the FSM states 0..4 occur; at every rising edge
\* that samples calculate_en high with calculation_done asserted,
\* calculation_done stays asserted and optimal_bid, optimal_ask and
\* latency_cycles keep their values; the FSM leaves the done state only at
\* a rising edge that samples calculate_en low, and calculation_done is
\* cleared at the next rising edge, in idle.
C29_Handshake ==
    [][/\ HandshakeStep
       /\ (/\ RisingEdge
           /\ heap[hjb_module].calculation_done = 1
           /\ heap'[hjb_module].calculate_en = 1)
            => /\ heap'[hjb_module].calculation_done = 1
               /\ Outputs(heap') = Outputs(heap)]_vars

\* C29 as amended: the same, with the hold of calculation_done and of the
\* outputs claimed for the rising edges that find the FSM in the done
\* state (4) and sample calculate_en high.
C29_HandshakeInDoneState ==
    [][/\ HandshakeStep
       /\ (/\ RisingEdge
           /\ heap[hjb_module].state = 4
           /\ heap[hjb_module].calculation_done = 1
           /\ heap'[hjb_module].calculate_en = 1)
            => /\ heap'[hjb_module].calculation_done = 1
               /\ Outputs(heap') = Outputs(heap)]_vars

\* a rising edge found the FSM in the done state with calculation_done
\* asserted and sampled calculate_en high and another mid_price
C29_Witness ==
    /\ hjb_module # NULL
    /\ call.fn = "eval"
    /\ call.state_before = 4
    /\ call.done_before = 1
    /\ heap[hjb_module].clk = 1
    /\ heap[hjb_module].calculate_en = 1
    /\ heap[hjb_module].calculation_done = 1
    /\ heap[hjb_module].latency_cycles = Limbs(4, 2)
    /\ heap[hjb_module].reservation_price = Mid150
    /\ heap[hjb_module].mid_price # Mid150

\* C30: when a pair of runLatencyBenchmark is answered, the sample it
\* collects is the latency that waitForExecution added to total_latency
\* for the pair plus 1, the cycle of the injection: the recorded latency
\* is at most the wait bound and the sample lies between 1 and the wait
\* bound plus 1 (100 and 101 in the source).
C30_SampleIsLatencyPlusOne ==
    [][(pc = "lat_wait" /\ test'.dut.order_execution_valid = 1)
        => /\ Len(latencies') = Len(latencies) + 1
           /\ latencies'[Len(latencies')]
                = (test'.total_latency - test.total_latency) + 1
           /\ test'.total_latency - test.total_latency <= DefaultMaxCycles
           /\ test'.total_latency - test.total_latency
                = test'.cycle_count - test.cycle_count
           /\ 1 <= latencies'[Len(latencies')]
           /\ latencies'[Len(latencies')] <= DefaultMaxCycles + 1
           /\ start_cycle = test.cycle_count - 1]_vars

\* a pair answered at the last cycle of its wait: the session latency is
\* the wait bound and the sample one more
C30_Witness ==
    /\ pc = "lat_settle"
    /\ j = 0
    /\ op.name = "waitForExecution"
    /\ test.dut.order_execution_valid = 1
    /\ latencies # <<>>
    /\ latencies[Len(latencies)] = DefaultMaxCycles + 1
    /\ test.max_latency = DefaultMaxCycles

\* the values the volatility port of an instance can hold: what the
\* constructor left there or an argument of an earlier call
VolatilityPorts == Volatilities \cup {Zero64, Ones64}
\* the instance with its volatility port blanked
ButVolatility(d) == [d EXCEPT !.volatility = Zero64]
\* the call hjb_calculate(mid_price, inventory, v) made on the instance
\* whose volatility port holds v0 instead: the status it returns, the time
\* and the result it leaves, the instance it leaves
TwinCall(v0, mid_price, inventory, v) ==
    LET c == StartAndClock([heap[hjb_module] EXCEPT !.volatility = v0], main_time,
                           mid_price, inventory, v)
    IN IF c[1].calculation_done = 1
       THEN [status |-> 0, main_time |-> c[2],
             result |-> [bid |-> c[1].optimal_bid, ask |-> c[1].optimal_ask,
                         latency_ns |-> ShiftL(c[1].latency_cycles, 2)],
             module |-> ButVolatility(module_eval([c[1] EXCEPT !.calculate_en = 0]))]
       ELSE [status |-> -1, main_time |-> c[2], result |-> result,
             module |-> ButVolatility(c[1])]
\* C31: a hjb_calculate returns the same status, bid, ask and latency_ns
\* and advances main_time as far, and leaves the instance the same but for
\* its volatility port, as the same call with any other volatility on an
\* instance that differs in the volatility of the earlier calls only; so
\* two runs of one call sequence that differ in the volatility arguments
\* agree at every call.
C31_VolatilityIgnored ==
    [][call'.fn = "hjb_calculate"
        => IF hjb_module = NULL
           THEN call'.status = -1 /\ main_time' = main_time /\ result' = result
           ELSE \A v0 \in VolatilityPorts, v \in Volatilities,
                   m \in {call'.mid_price}, inv \in {call'.inventory} :
                   TwinCall(v0, m, inv, v)
                     = [status |-> call'.status, main_time |-> main_time',
                        result |-> result',
                        module |-> ButVolatility(heap'[hjb_module])]]_vars

\* the first calculation on an instance, made with volatility 0.04,
\* answered with the bid and ask that volatility 0.02 gets
C31_Witness ==
    /\ ncalls = 2
    /\ call.fn = "hjb_calculate"
    /\ call.status = 0
    /\ call.mid_price = Mid150
    /\ call.inventory = 0
    /\ call.volatility # Vol002
    /\ heap[hjb_module].volatility = call.volatility
    /\ result.bid = Sub(Mid150, ShiftR(Mid150, 8))
    /\ result.ask = Add(Mid150, ShiftR(Mid150, 8))
    /\ result.latency_ns = Limbs(16, 2)

\* injections of a run with hf burst ticks, pairs benchmark pairs and
\* stress stress messages: one basic event, one per symbol, and the loops
TicksOf(hf, pairs, stress) == 1 + Len(symbols) + hf + pairs + stress
\* its waitForExecution calls: the basic test and one per pair
WaitsOf(pairs) == 1 + pairs
\* its clock cycles outside the waits: reset, the basic event and its
\* settle cycles, the sweep, the burst with its idle cycles, the pairs with
\* their settle cycles, the stress messages
FixedCyclesOf(hf, pairs, stress) ==
    (ResetHoldCycles + 1)
    + (1 + BasicSettleCycles)
    + Len(symbols) * (1 + MultiDelayCycles)
    + (hf + ((hf - 1) \div HFProcessEvery) + 1)
    + pairs * (1 + LatencySettleCycles)
    + stress
\* C32: when runAllTests reaches the report, total_ticks is the number of
\* injections, total_executions is at most the number of waitForExecution
\* calls, which is at most total_ticks, so the execution rate printed is at
\* most 1; cycle_count is the cycles outside the waits plus the cycles of
\* the waits (the latencies recorded plus the full bound for each wait
\* that timed out), so it lies between the former and the former plus the
\* bound for every wait.  With the counts of the source (10,000 ticks,
\* 1,000 pairs, 50,000 messages, bound 100) these are 61,006 injections,
\* 1,001 waits, 66,147 cycles and at most 166,247.
C32_ReportTotals ==
    pc \in {"report", "done"}
        => /\ test.total_ticks = TicksOf(HFTicks, LatencyPairs, StressMsgs)
           /\ test.total_executions <= WaitsOf(LatencyPairs)
           /\ WaitsOf(LatencyPairs) <= test.total_ticks
           /\ test.cycle_count
                = FixedCyclesOf(HFTicks, LatencyPairs, StressMsgs)
                  + test.total_latency
                  + (WaitsOf(LatencyPairs) - test.total_executions) * DefaultMaxCycles
           /\ FixedCyclesOf(HFTicks, LatencyPairs, StressMsgs) <= test.cycle_count
           /\ test.cycle_count <= FixedCyclesOf(HFTicks, LatencyPairs, StressMsgs)
                                    + WaitsOf(LatencyPairs) * DefaultMaxCycles
           /\ pc = "done"
                => /\ report.execution_rate
                        = {Div(test.total_executions, test.total_ticks)}
                   /\ \A rate \in report.execution_rate : rate.num <= rate.den
           /\ TicksOf(HFTickCount, BenchmarkPairs, StressMsgCount) = 61006
           /\ WaitsOf(BenchmarkPairs) = 1001
           /\ FixedCyclesOf(HFTickCount, BenchmarkPairs, StressMsgCount) = 66147
           /\ 66147 + WaitsOf(BenchmarkPairs) * 100 = 166247

\* the report of a run in which every wait was answered at its last cycle:
\* cycle_count is at its maximum and every wait counted as an execution
C32_Witness ==
    /\ pc = "done"
    /\ report.printed
    /\ test.total_executions = WaitsOf(LatencyPairs)
    /\ test.cycle_count = FixedCyclesOf(HFTicks, LatencyPairs, StressMsgs)
                            + WaitsOf(LatencyPairs) * DefaultMaxCycles

====
